---- MODULE Spec2Model ----
(***************************************************************************)
(* A model of the access policy engine of the focus extension:             *)
(*   src/background/rule-engine.js     decision engine and rule compiler   *)
(*   src/background/time-tracker.js    tracking loop                       *)
(*   src/background/service-worker.js  event handlers                      *)
(*   src/shared/storage.js             persisted rows                      *)
(*                                                                         *)
(* Every handler is an async function.  A handler runs without             *)
(* interruption from one await of a browser call (chrome.storage,          *)
(* chrome.tabs, chrome.alarms, chrome.declarativeNetRequest, chrome.action)*)
(* to the next; other handlers run while it is suspended there.  A browser *)
(* call takes effect when it is issued (the browser serves the calls of    *)
(* one extension in the order they were issued); the handler resumes       *)
(* later.  The chrome.action calls of one updateIcon take effect         *)
(* together, when updateIcon is called.  Strings are sequences of          *)
(* one-character strings; times of day "HH:MM" are pairs <<hh, mm>>; the   *)
(* clock counts minutes since the epoch.                                   *)
(***************************************************************************)
EXTENDS Integers, Sequences, FiniteSets, TLC

----------------------------------------------------------------------------
(* Bounds of the model *)

\* handlers in progress at the same time (one more where only ticks overlap)
MaxTasks == 2
\* live one-second timers: a handler that may start one is started only
\* while the timers and the handlers in progress are fewer than this
MaxIntervals == 3
\* the last calendar day the clock reaches (day 0 is the epoch, a Thursday)
MaxDay == 1
\* handlers that rebuild the rules start only while the persisted rule-ID
\* counter is at most this
MaxRuleId == 3
\* one-second ticks delivered in one behaviour
MaxTicks == 3
\* the length, in minutes, of the pauses the popup asks for
PauseMinutes == 2

\* the pieces a raw site pattern typed by the user is made of
MaxPieces == 3
\* time blocks of one group: addTimeBlock is called only for a group with
\* fewer
MaxBlocks == 2

(* Program constants *)

\* rule-engine.js:96   24 * 60
MinutesPerDay == 1440
\* time-tracker.js:170   allowedMinutes * 60
SecondsPerMinute == 60
\* time-tracker.js:217   tickCounter % 10
PersistEvery == 10
\* storage.js:130   { nextRuleId: 1 }
FirstRuleId == 1

\* rule-engine.js:8
DAY_NAMES == <<"sun", "mon", "tue", "wed", "thu", "fri", "sat">>

----------------------------------------------------------------------------
(* Strings *)

Str1 == <<"a", ".", "b">>
Str2 == <<"c", ".", "d">>
Str3 == <<"e", ".", "f">>
Slash == <<"/">>

\* String.prototype.toLowerCase on the alphabet of the model
LowerChar(c) ==
  CASE c = "A" -> "a" [] c = "B" -> "b" [] c = "C" -> "c" [] c = "D" -> "d"
    [] c = "R" -> "r" [] c = "W" -> "w" [] OTHER -> c

ToLower(s) == [i \in 1..Len(s) |-> LowerChar(s[i])]

StartsWith(s, p) == Len(p) <= Len(s) /\ SubSeq(s, 1, Len(p)) = p

EndsWith(s, p) == Len(p) <= Len(s) /\ SubSeq(s, Len(s) - Len(p) + 1, Len(s)) = p

\* index of the first "/" of s, 0 when there is none
FirstSlash(s) ==
  IF \E i \in 1..Len(s) : s[i] = "/"
  THEN CHOOSE i \in 1..Len(s) : s[i] = "/" /\ \A j \in 1..(i - 1) : s[j] # "/"
  ELSE 0

\* pattern.split('/')[0]
PatternDomain(pattern) ==
  IF FirstSlash(pattern) = 0 THEN pattern
  ELSE SubSeq(pattern, 1, FirstSlash(pattern) - 1)

\* '/' + patternParts.slice(1).join('/'), or <<>> for null (no path part)
PatternPath(pattern) ==
  IF FirstSlash(pattern) = 0 THEN <<>>
  ELSE SubSeq(pattern, FirstSlash(pattern), Len(pattern))

----------------------------------------------------------------------------
(* Pattern matcher *)

\* doesUrlMatchSite with a suffix test that does not ask for the dot
doesUrlMatchSiteNoDot(hostname, pathname, site) ==
  LET hostLower == ToLower(hostname)
      domainLower == ToLower(PatternDomain(site.pattern))
      patternPath == PatternPath(site.pattern)
  IN /\ EndsWith(hostLower, domainLower)
     /\ (patternPath # <<>> =>
           StartsWith(ToLower(pathname), ToLower(patternPath)))

doesUrlMatchSite(hostname, pathname, site) ==
  LET hostLower == ToLower(hostname)
      domainLower == ToLower(PatternDomain(site.pattern))
      patternPath == PatternPath(site.pattern)
  IN /\ (hostLower = domainLower \/ EndsWith(hostLower, <<".">> \o domainLower))
     /\ (patternPath # <<>> =>
           StartsWith(ToLower(pathname), ToLower(patternPath)))

\* findMatchingGroups without the try: a URL that does not parse is taken
\* to match every group
findMatchingGroupsNoTry(url, groups) ==
  IF url.kind = "malformed" THEN [i \in 1..Len(groups) |-> i]
  ELSE SelectSeq([i \in 1..Len(groups) |-> i],
         LAMBDA i : \E k \in 1..Len(groups[i].sites) :
                       doesUrlMatchSite(url.host, url.path, groups[i].sites[k]))

\* the positions, in order, of the groups one of whose sites matches the URL;
\* a URL that does not parse (kind "malformed") matches nothing
findMatchingGroups(url, groups) ==
  IF url.kind = "malformed" THEN <<>>
  ELSE SelectSeq([i \in 1..Len(groups) |-> i],
         LAMBDA i : \E k \in 1..Len(groups[i].sites) :
                       doesUrlMatchSite(url.host, url.path, groups[i].sites[k]))

----------------------------------------------------------------------------
(* Pattern helpers: group-manager.js *)

Space == <<" ">>
Www == <<"w", "w", "w", ".">>
Http == <<"h", "t", "t", "p", ":", "/", "/">>
Https == <<"h", "t", "t", "p", "s", ":", "/", "/">>

\* String.prototype.trim: the white space at both ends is dropped
Trim(s) ==
  LET inked == {i \in 1..Len(s) : s[i] # " "}
  IN IF inked = {} THEN <<>>
     ELSE SubSeq(s, CHOOSE i \in inked : \A j \in inked : i <= j,
                    CHOOSE i \in inked : \A j \in inked : j <= i)

\* replace(/^https?:\/\//, '')
StripProtocol(s) ==
  IF StartsWith(s, Http) THEN SubSeq(s, Len(Http) + 1, Len(s))
  ELSE IF StartsWith(s, Https) THEN SubSeq(s, Len(Https) + 1, Len(s))
  ELSE s

\* replace(/^www\./, '')
StripWww(s) ==
  IF StartsWith(s, Www) THEN SubSeq(s, Len(Www) + 1, Len(s)) ELSE s

\* replace(/\/+$/, '')
StripTrailingSlashes(s) ==
  LET keep == {k \in 0..Len(s) : \A j \in (k + 1)..Len(s) : s[j] = "/"}
  IN SubSeq(s, 1, CHOOSE k \in keep : \A j \in keep : k <= j)

normalizeSitePattern(raw) ==
  StripTrailingSlashes(StripWww(StripProtocol(ToLower(Trim(raw)))))

----------------------------------------------------------------------------
(* Time block management: group-manager.js.  A blockConfig or an updates    *)
(* object is a record of the properties it has.                             *)

\* the falsy value of a property: false, 0 or the empty string
Falsy(key) ==
  CASE key = "allDay" -> FALSE [] key = "allowedMinutes" -> 0 [] OTHER -> <<>>

\* `config.key || fallback`: the property, unless it is missing or falsy
\* (false, 0, the empty string)
OrElse(config, key, fallback) ==
  IF key \in DOMAIN config /\ config[key] # Falsy(key)
    THEN config[key] ELSE fallback

\* the block addTimeBlock builds from blockConfig, with the UUID drawn
NewTimeBlock(blockConfig, id) ==
  LET allDay == OrElse(blockConfig, "allDay", FALSE)
  IN [id |-> id,
      days |-> IF "days" \in DOMAIN blockConfig THEN blockConfig.days ELSE {},
      startTime |-> IF allDay THEN <<0, 0>>
                    ELSE OrElse(blockConfig, "startTime", <<9, 0>>),
      endTime |-> IF allDay THEN <<23, 59>>
                  ELSE OrElse(blockConfig, "endTime", <<17, 0>>),
      allDay |-> allDay,
      allowedMinutes |-> OrElse(blockConfig, "allowedMinutes", 15)]

\* Object.assign(target, source)
ObjectAssign(target, source) ==
  [k \in DOMAIN target \cup DOMAIN source |->
     IF k \in DOMAIN source THEN source[k] ELSE target[k]]

\* updateTimeBlock: the stored block after the updates, which get the times
\* of an all-day block when they set allDay
UpdatedTimeBlock(block, updates) ==
  IF "allDay" \in DOMAIN updates /\ updates.allDay
    THEN ObjectAssign(block,
           ObjectAssign(updates, [startTime |-> <<0, 0>>, endTime |-> <<23, 59>>]))
    ELSE ObjectAssign(block, updates)

\* the groups list addTimeBlock saves: the block is pushed on the group's
\* allowedTimeBlocks
addTimeBlock(grp, groupId, blockConfig, id) ==
  [g \in 1..Len(grp) |->
     IF grp[g].id = groupId
       THEN [grp[g] EXCEPT !.allowedTimeBlocks =
               Append(grp[g].allowedTimeBlocks, NewTimeBlock(blockConfig, id))]
       ELSE grp[g]]

\* the groups list updateTimeBlock saves
updateTimeBlock(grp, groupId, blockId, updates) ==
  [g \in 1..Len(grp) |->
     IF grp[g].id = groupId
       THEN [grp[g] EXCEPT !.allowedTimeBlocks =
               [i \in 1..Len(grp[g].allowedTimeBlocks) |->
                  IF grp[g].allowedTimeBlocks[i].id = blockId
                    THEN UpdatedTimeBlock(grp[g].allowedTimeBlocks[i], updates)
                    ELSE grp[g].allowedTimeBlocks[i]]]
       ELSE grp[g]]

----------------------------------------------------------------------------
(* Schedule evaluator *)

\* todayDateStr: the calendar day of instant t
todayDateStr(t) == t \div MinutesPerDay

\* getCurrentDayStr: 1970-01-01 was a Thursday
getCurrentDayStr(t) == DAY_NAMES[((todayDateStr(t) + 4) % 7) + 1]

getCurrentTimeMinutes(t) == t % MinutesPerDay

timeStrToMinutes(timeStr) == timeStr[1] * 60 + timeStr[2]

\* isInsideTimeBlock with the end minute left out
isInsideTimeBlockEndExclusive(block, t) ==
  /\ getCurrentDayStr(t) \in block.days
  /\ getCurrentTimeMinutes(t) >= timeStrToMinutes(block.startTime)
  /\ getCurrentTimeMinutes(t) < timeStrToMinutes(block.endTime)

isInsideTimeBlock(block, t) ==
  /\ getCurrentDayStr(t) \in block.days
  /\ getCurrentTimeMinutes(t) >= timeStrToMinutes(block.startTime)
  /\ getCurrentTimeMinutes(t) <= timeStrToMinutes(block.endTime)

NoBlock == [id |-> "none", days |-> {}, startTime |-> <<0, 0>>,
            endTime |-> <<0, 0>>, allDay |-> FALSE, allowedMinutes |-> 0]

\* the first block, in insertion order, that is active at t
getActiveBlockForGroup(group, t) ==
  LET blocks == group.allowedTimeBlocks
      hits == {i \in 1..Len(blocks) :
                 /\ getCurrentDayStr(t) \in blocks[i].days
                 /\ getCurrentTimeMinutes(t) >= timeStrToMinutes(blocks[i].startTime)
                 /\ getCurrentTimeMinutes(t) <= timeStrToMinutes(blocks[i].endTime)}
  IN IF hits = {} THEN NoBlock
     ELSE blocks[CHOOSE i \in hits : \A j \in hits : i <= j]

\* the boundaries of a block taken at its end minute, not the minute after
BlockBoundariesAtEnd(block, nowMinutes) ==
  LET start == timeStrToMinutes(block.startTime)
      end == timeStrToMinutes(block.endTime)
  IN (IF start > nowMinutes THEN <<start>> ELSE <<>>)
       \o (IF end > nowMinutes /\ end <= MinutesPerDay THEN <<end>> ELSE <<>>)

\* getNextTimeWindowBoundary, for one block of today: the candidate
\* boundaries, in minutes of the day, that are after the current minute
BlockBoundaries(block, nowMinutes) ==
  LET start == timeStrToMinutes(block.startTime)
      endBoundary == timeStrToMinutes(block.endTime) + 1
  IN (IF start > nowMinutes THEN <<start>> ELSE <<>>)
       \o (IF endBoundary > nowMinutes /\ endBoundary <= MinutesPerDay
             THEN <<endBoundary>> ELSE <<>>)

\* the candidate boundaries in the order the loops meet them: for every
\* group from position g on, every block from position i on
RECURSIVE BoundaryCandidates(_, _, _, _)
BoundaryCandidates(grp, g, i, t) ==
  IF g > Len(grp) THEN <<>>
  ELSE IF i > Len(grp[g].allowedTimeBlocks)
    THEN BoundaryCandidates(grp, g + 1, 1, t)
  ELSE (IF getCurrentDayStr(t) \in grp[g].allowedTimeBlocks[i].days
          THEN BlockBoundaries(grp[g].allowedTimeBlocks[i],
                               getCurrentTimeMinutes(t))
          ELSE <<>>)
         \o BoundaryCandidates(grp, g, i + 1, t)

\* soonestMs after the candidates from position k on, -1 for null;
\* setHours(h, m) of today is an instant of today, or 00:00 of tomorrow
\* for 24:00
RECURSIVE Soonest(_, _, _, _)
Soonest(candidates, k, soonestMs, t) ==
  IF k > Len(candidates) THEN soonestMs
  ELSE LET boundaryMs == todayDateStr(t) * MinutesPerDay + candidates[k]
       IN Soonest(candidates, k + 1,
            IF boundaryMs > t /\ (soonestMs = -1 \/ boundaryMs < soonestMs)
              THEN boundaryMs ELSE soonestMs,
            t)

getNextTimeWindowBoundary(grp, t) ==
  Soonest(BoundaryCandidates(grp, 1, 1, t), 1, -1, t)

----------------------------------------------------------------------------
(* State *)

VARIABLES
  now,            \* Date.now(), in minutes since the epoch
  tabs,           \* the open tabs: tab id -> URL
  active,         \* the id of the active tab of the focused window, or 0
  groups,         \* storage: the groups list
  ledger,         \* storage: tracking::{groupId}::{date}::{blockId} rows
  pauses,         \* storage: pause::{groupId} rows
  nextRuleId,     \* storage: the rule-ID counter
  ruleIdMap,      \* storage: the rule-ID map
  installed,      \* declarativeNetRequest: the installed dynamic rules
  alarms,         \* chrome.alarms: name -> [when, period]
  trackingState,  \* time-tracker.js: the session, or NoSession for null
  tickCounter,    \* time-tracker.js: tickCounter
  intervals,      \* the live setInterval timers
  tasks,          \* the handlers in progress, one record per slot
  running,        \* the slot of the handler that holds the thread, or 0
  redirects,      \* history: the redirects tick has issued, in order
  failed,         \* history: the handlers ended by an exception
  accrued,        \* history: the ledger keys a tick has accrued usage for
  ticks,          \* history: the ticks delivered so far
  started,        \* history: the usage the latest session started with, or -1
  lastRebuild,    \* history: the result of the rebuild that completed last
  call,           \* a call of a pure function: <<name, arguments>>
  result,         \* what the call returned, <<value>>, or <<>> before it returns
  iconCache,      \* icon-renderer.js: updateIcon.cache
  actionFails     \* the chrome.action calls that fail at present

storageVars == <<groups, ledger, pauses, nextRuleId, ruleIdMap>>
browserVars == <<now, tabs, active, installed, alarms>>
trackerVars == <<trackingState, tickCounter, intervals>>
historyVars == <<redirects, failed, accrued, ticks, started, lastRebuild>>
probeVars == <<call, result>>
iconVars == <<iconCache, actionFails>>
vars == <<storageVars, browserVars, trackerVars, tasks, running, historyVars,
          probeVars, iconVars>>

\* no pure function is being called
NoCall == <<"none", <<>>>>

NoSession == [groupId |-> "none", blockId |-> "none", usedSeconds |-> 0,
              allowedSeconds |-> 0, tabId |-> 0, intervalId |-> 0]

Tasks == 1..(MaxTasks + 1)

----------------------------------------------------------------------------
(* Storage rows: a row that is absent reads as its default *)

\* getTrackingEntry: { usedSeconds: 0 } when the row is absent
getTrackingEntry(groupId, dateStr, blockId) ==
  IF <<groupId, dateStr, blockId>> \in DOMAIN ledger
  THEN ledger[<<groupId, dateStr, blockId>>] ELSE 0

\* the ledger after setTrackingEntry
setTrackingEntry(groupId, dateStr, blockId, usedSeconds) ==
  [k \in DOMAIN ledger \cup {<<groupId, dateStr, blockId>>} |->
     IF k = <<groupId, dateStr, blockId>> THEN usedSeconds ELSE ledger[k]]

\* getPause: the row's pausedUntil, or -1 for null
getPause(groupId) ==
  IF groupId \in DOMAIN pauses THEN pauses[groupId] ELSE -1

\* the pause rows after setPause
setPause(groupId, pausedUntil) ==
  [k \in DOMAIN pauses \cup {groupId} |->
     IF k = groupId THEN pausedUntil ELSE pauses[k]]

\* the pause rows after clearPause
clearPause(groupId) == [k \in DOMAIN pauses \ {groupId} |-> pauses[k]]

\* getAllActivePauses: the groups whose row read in rows is unexpired at t
getAllActivePauses(rows, t) == {k \in DOMAIN rows : rows[k] > t}

----------------------------------------------------------------------------
(* Decision engine *)

NoDecision == [block |-> FALSE, reason |-> "none", pausedUntil |-> 0,
               allowedMinutes |-> <<>>, activeBlock |-> NoBlock,
               remainingSeconds |-> 0]

\* DecideSchedule without the test for an empty allowedTimeBlocks list
DecideScheduleNoEmptyTest(group, pauseRow, t) ==
  IF pauseRow # -1 /\ pauseRow > t
    THEN [NoDecision EXCEPT !.reason = "paused", !.pausedUntil = pauseRow]
  ELSE IF getActiveBlockForGroup(group, t) = NoBlock
    THEN [NoDecision EXCEPT !.block = TRUE, !.reason = "outside-schedule"]
  ELSE [NoDecision EXCEPT !.reason = "budget",
                          !.activeBlock = getActiveBlockForGroup(group, t)]

\* DecideSchedule with a pause that still counts at the instant it ends
DecideSchedulePauseInclusive(group, pauseRow, t) ==
  IF pauseRow # -1 /\ pauseRow >= t
    THEN [NoDecision EXCEPT !.reason = "paused", !.pausedUntil = pauseRow]
  ELSE IF Len(group.allowedTimeBlocks) = 0
    THEN [NoDecision EXCEPT !.block = TRUE, !.reason = "always-blocked"]
  ELSE IF getActiveBlockForGroup(group, t) = NoBlock
    THEN [NoDecision EXCEPT !.block = TRUE, !.reason = "outside-schedule"]
  ELSE [NoDecision EXCEPT !.reason = "budget",
                          !.activeBlock = getActiveBlockForGroup(group, t)]

\* shouldGroupBlockNow up to the ledger read: pauseRow is what getPause
\* returned and t the time the handler resumed.  reason "budget" stands for
\* "an active block was found, the ledger is to be read".
DecideSchedule(group, pauseRow, t) ==
  IF pauseRow # -1 /\ pauseRow > t
    THEN [NoDecision EXCEPT !.reason = "paused", !.pausedUntil = pauseRow]
  ELSE IF Len(group.allowedTimeBlocks) = 0
    THEN [NoDecision EXCEPT !.block = TRUE, !.reason = "always-blocked"]
  ELSE IF getActiveBlockForGroup(group, t) = NoBlock
    THEN [NoDecision EXCEPT !.block = TRUE, !.reason = "outside-schedule"]
  ELSE [NoDecision EXCEPT !.reason = "budget",
                          !.activeBlock = getActiveBlockForGroup(group, t)]

\* DecideBudget with the budget still open when the usage equals it
DecideBudgetStrict(activeBlock, usedSeconds) ==
  IF usedSeconds > activeBlock.allowedMinutes * SecondsPerMinute
    THEN [NoDecision EXCEPT !.block = TRUE, !.reason = "budget-exhausted",
                            !.allowedMinutes = <<activeBlock.allowedMinutes>>]
  ELSE [NoDecision EXCEPT !.reason = "allowed", !.activeBlock = activeBlock,
          !.remainingSeconds =
             activeBlock.allowedMinutes * SecondsPerMinute - usedSeconds]

\* shouldGroupBlockNow after the ledger read: usedSeconds / 60 >= allowedMinutes
DecideBudget(activeBlock, usedSeconds) ==
  IF usedSeconds >= activeBlock.allowedMinutes * SecondsPerMinute
    THEN [NoDecision EXCEPT !.block = TRUE, !.reason = "budget-exhausted",
                            !.allowedMinutes = <<activeBlock.allowedMinutes>>]
  ELSE [NoDecision EXCEPT !.reason = "allowed", !.activeBlock = activeBlock,
          !.remainingSeconds =
             activeBlock.allowedMinutes * SecondsPerMinute - usedSeconds]

\* shouldGroupBlockNow on the rows and the clock of the current state
shouldGroupBlockNow(group) ==
  LET d == DecideSchedule(group, getPause(group.id), now)
  IN IF d.reason # "budget" THEN d
     ELSE DecideBudget(d.activeBlock,
            getTrackingEntry(group.id, todayDateStr(now), d.activeBlock.id))

\* `${decision.allowedMinutes || ''}`: empty when undefined or 0
AllowedMinutesText(decision) ==
  IF decision.allowedMinutes = <<0>> THEN <<>> ELSE decision.allowedMinutes

----------------------------------------------------------------------------
(* Tabs and enforcement rules *)

\* http://host:port/path, what new URL() parses into hostname and pathname;
\* port is <<>> when the URL names none
WebUrlPort(host, port, path) ==
  [kind |-> "web", host |-> host, port |-> port, path |-> path,
   groupId |-> "none", reason |-> "none", allowedMinutes |-> <<>>]

WebUrl(host, path) == WebUrlPort(host, <<>>, path)

\* a URL new URL() cannot parse
MalformedUrl == [WebUrl(<<>>, <<>>) EXCEPT !.kind = "malformed"]

\* chrome://, about: and the extension's own pages other than the notice
ChromeUrl == [WebUrl(<<>>, <<>>) EXCEPT !.kind = "chrome"]

\* a tab without a URL, or no active tab
NoUrl == [WebUrl(<<>>, <<>>) EXCEPT !.kind = "none"]

\* blocked/blocked.html?group=..&groupId=..&reason=..&allowedMinutes=..&url=..
NoticeUrl(groupId, reason, allowedMinutes, url) ==
  [kind |-> "notice",
   host |-> IF url.kind = "web" THEN url.host ELSE <<>>,
   port |-> IF url.kind = "web" THEN url.port ELSE <<>>,
   path |-> IF url.kind = "web" THEN url.path ELSE <<>>,
   groupId |-> groupId, reason |-> reason, allowedMinutes |-> allowedMinutes]

\* the url= parameter of a notice URL
OriginalUrl(url) == WebUrlPort(url.host, url.port, url.path)

\* ([a-zA-Z0-9-]+\.)* : a possibly empty run of labels, each ended by a dot
IsLabelRun(s) ==
  \/ s = <<>>
  \/ /\ s[Len(s)] = "."
     /\ s[1] # "."
     /\ \A i \in 1..(Len(s) - 1) : ~(s[i] = "." /\ s[i + 1] = ".")
     /\ \A i \in 1..Len(s) : s[i] \notin {"/", ":"}

\* the text of a web URL after its "http://" or "https://"
AfterScheme(url) ==
  url.host \o (IF url.port = <<>> THEN <<>> ELSE <<":">> \o url.port) \o url.path

\* sitePatternToRegexFilter(pattern) matched against url:
\* ^https?://([a-zA-Z0-9-]+\.)*domain followed by the pattern's path, which
\* is "/" when the pattern has none.  The rule does not set
\* isUrlFilterCaseSensitive, so the browser matches without regard to case.
sitePatternToRegexFilter(pattern, url) ==
  LET domain == PatternDomain(pattern)
      path == IF PatternPath(pattern) = <<>> THEN Slash ELSE PatternPath(pattern)
      text == ToLower(AfterScheme(url))
  IN /\ url.kind = "web"
     /\ \E k \in 0..Len(text) :
          /\ IsLabelRun(SubSeq(text, 1, k))
          /\ StartsWith(SubSeq(text, k + 1, Len(text)), ToLower(domain \o path))

\* the rules rebuildAllRules compiles for one blocked group, numbered from
\* nextId in the order of group.sites
CompileGroup(group, decision, nextId) ==
  [k \in 1..Len(group.sites) |->
     [id |-> nextId + k - 1, groupId |-> group.id, siteId |-> group.sites[k].id,
      pattern |-> group.sites[k].pattern, reason |-> decision.reason,
      allowedMinutes |-> AllowedMinutesText(decision)]]

Range(f) == {f[i] : i \in DOMAIN f}

RuleIds(rules) == {r.id : r \in rules}

\* updateDynamicRules({removeRuleIds, addRules}): the rules left installed.
\* The browser rejects the whole update when an added rule has the ID of a
\* rule that stays installed.
UpdateRejected(rules, removeRuleIds, addRules) ==
  \/ \E r \in rules, k \in DOMAIN addRules :
        r.id \notin removeRuleIds /\ r.id = addRules[k].id
  \/ \E j, k \in DOMAIN addRules : j # k /\ addRules[j].id = addRules[k].id

\* updateDynamicRules that ignores removeRuleIds
updateDynamicRulesKeepsOld(rules, removeRuleIds, addRules) ==
  rules \cup Range(addRules)

\* updateDynamicRules that adds nothing
updateDynamicRulesRemovesOnly(rules, removeRuleIds, addRules) ==
  {r \in rules : r.id \notin removeRuleIds}

updateDynamicRules(rules, removeRuleIds, addRules) ==
  {r \in rules : r.id \notin removeRuleIds} \cup Range(addRules)

\* where a main-frame navigation of a tab to url ends: on the notice of the
\* installed rule that matches it, if there is one
Navigated(url) ==
  LET hits == {r \in installed : sitePatternToRegexFilter(r.pattern, url)}
  IN IF hits = {} THEN url
     ELSE LET r == CHOOSE x \in hits : \A y \in hits : x.id <= y.id
          IN NoticeUrl(r.groupId, r.reason, r.allowedMinutes, url)

----------------------------------------------------------------------------
(* Toolbar icon and badge: icon-renderer.js *)

\* updateIcon.cache before the first update
NoIcon == [state |-> "null", badgeText |-> <<"null">>, badgeBgColor |-> "null"]

\* the arguments of updateIcon(state, badgeText = '', badgeBgColor = '#EA4335')
IconArgs(state, badgeText, badgeBgColor) ==
  [state |-> state, badgeText |-> badgeText, badgeBgColor |-> badgeBgColor]

DefaultIcon == IconArgs("default", <<>>, "#EA4335")

BlockedIcon == IconArgs("blocked", <<"X">>, "#EA4335")

\* '' for no time left, "Ns" under a minute, else "Nm" rounded up
formatBadgeTime(seconds) ==
  IF seconds <= 0 THEN <<>>
  ELSE IF seconds < SecondsPerMinute THEN <<seconds, "s">>
  ELSE <<(seconds + SecondsPerMinute - 1) \div SecondsPerMinute, "m">>

\* the icon of a session with remaining seconds left
SessionIcon(remaining) ==
  IF remaining <= SecondsPerMinute
    THEN IconArgs("urgent", formatBadgeTime(remaining), "#F4B400")
    ELSE IconArgs("timer", formatBadgeTime(remaining), "#34A853")

\* the icon of a group paused until pausedUntil, at instant t
PausedIcon(pausedUntil, t) ==
  IconArgs("paused", formatBadgeTime((pausedUntil - t) * SecondsPerMinute),
           "#9E9E9E")

\* updateIcon: what the cache holds afterwards and whether it threw.  Only
\* what differs from the cache is sent to the browser; the failure of
\* setIcon is caught, the failure of a badge call is not.  fails are the
\* chrome.action calls that fail.
updateIcon(cache, args, fails) ==
  LET shouldUpdateIcon == args.state # cache.state
      shouldUpdateBadgeText == args.badgeText # cache.badgeText
      shouldUpdateBadgeColor ==
        args.badgeText # <<>> /\ args.badgeBgColor # cache.badgeBgColor
      drawn == IF shouldUpdateIcon /\ "setIcon" \notin fails
                 THEN [cache EXCEPT !.state = args.state] ELSE cache
      written == [drawn EXCEPT !.badgeText = args.badgeText]
      coloured == [written EXCEPT !.badgeBgColor = args.badgeBgColor]
  IN IF shouldUpdateBadgeText /\ "setBadgeText" \in fails
       THEN [cache |-> drawn, threw |-> TRUE]
     ELSE IF ~shouldUpdateBadgeColor
       THEN [cache |-> written, threw |-> FALSE]
     ELSE IF "setBadgeBackgroundColor" \in fails
       THEN [cache |-> written, threw |-> TRUE]
     ELSE [cache |-> coloured, threw |-> FALSE]

----------------------------------------------------------------------------
(* Handlers in progress *)

IdleTask ==
  [pc |-> "idle", stack |-> <<>>, kind |-> "none",
   tab |-> [id |-> 0, url |-> NoUrl],
   grp |-> <<>>, matching |-> <<>>, i |-> 0, g |-> 0,
   best |-> 0, bestDecision |-> NoDecision,
   pauseRow |-> -1, pauseRows |-> <<>>, used |-> 0, decision |-> NoDecision,
   nextId |-> 0, addRules |-> <<>>, removeRuleIds |-> {}, solo |-> TRUE,
   decisions |-> <<>>,
   remaining |-> 0, tabId |-> 0, groupId |-> "none", allowedMinutes |-> 0,
   tabUrl |-> NoUrl, pausedUntil |-> 0, icon |-> DefaultIcon]

\* the labels at which a handler is suspended on a browser call
YieldLabels ==
  {"ect_q", "ect_groups", "ect_n_groups", "ect_redirect", "sgb_p", "sgb_t",
   "stop_p", "start_e", "tick_p1", "tick_p2", "tick_g", "tick_gg",
   "rb_g", "rb_n", "rb_e", "rb_u", "rb_m", "rb_s",
   "init_h", "init_m", "init_p", "pa_s", "pa_a", "pe_c", "px_c", "gts_g"}

Busy == {t \in Tasks : tasks[t].pc # "idle"}

\* the handler in slot t is at label l and may take its next step
Ready(t, l) ==
  /\ tasks[t].pc = l
  /\ running = (IF l \in YieldLabels THEN 0 ELSE t)

\* the handler in slot t goes on as rec
Go(t, rec) ==
  /\ tasks' = [tasks EXCEPT ![t] = rec]
  /\ running' = (IF rec.pc \in YieldLabels \cup {"idle"} THEN 0 ELSE t)

\* a new handler starts as rec in the lowest free slot, while fewer than
\* limit handlers are in progress
Spawn(limit, rec) ==
  /\ running = 0
  /\ Cardinality(Busy) < limit
  /\ \E t \in Tasks \ Busy :
       /\ \A u \in Tasks \ Busy : t <= u
       /\ Go(t, rec)

Call(rec, entry, ret) == [rec EXCEPT !.pc = entry, !.stack = <<ret>> \o rec.stack]

Return(rec) ==
  IF rec.stack = <<>> THEN IdleTask
  ELSE [rec EXCEPT !.pc = Head(rec.stack), !.stack = Tail(rec.stack)]

\* an exception leaves the handler: initialize catches and logs it, every
\* other handler ends with it
Throw(t, what) ==
  /\ tasks' = [tasks EXCEPT ![t] = IdleTask]
  /\ running' = 0
  /\ failed' = failed \cup {<<tasks[t].kind, what>>}

\* `await stopTracking(); await updateIcon(...); return;`
StopThenIcon(rec, args) == Call([rec EXCEPT !.icon = args], "stop", "ect_end")

\* `await updateIcon(...)` as the last statement of the handler in slot t,
\* which goes on as rec: a failure of updateIcon ends the handler
UpdateIconAndReturn(t, rec, args) ==
  LET done == updateIcon(iconCache, args, actionFails)
  IN /\ iconCache' = done.cache
     /\ IF done.threw
          THEN Throw(t, "updateIcon")
          ELSE /\ Go(t, Return([rec EXCEPT !.icon = DefaultIcon]))
               /\ UNCHANGED failed
     /\ UNCHANGED actionFails

----------------------------------------------------------------------------
(* Tracking loop: time-tracker.js *)

Tracking == trackingState # NoSession

\* setInterval: the handle of the new timer
NewIntervalId == CHOOSE n \in 1..(Cardinality(intervals) + 1) : n \notin intervals

\* the session startTracking creates
StartedSession(groupId, activeBlock, usedSeconds, tabId, intervalId) ==
  [groupId |-> groupId, blockId |-> activeBlock.id, usedSeconds |-> usedSeconds,
   allowedSeconds |-> activeBlock.allowedMinutes * SecondsPerMinute,
   tabId |-> tabId, intervalId |-> intervalId]

\* tick counting two seconds
TickedSessionTwice(session) == [session EXCEPT !.usedSeconds = session.usedSeconds + 2]

\* tick: trackingState.usedSeconds++
TickedSession(session) == [session EXCEPT !.usedSeconds = session.usedSeconds + 1]

\* remaining taken one second short
RemainingOneShort(session) == session.allowedSeconds - session.usedSeconds - 1

\* allowedSeconds - usedSeconds
Remaining(session) == session.allowedSeconds - session.usedSeconds

\* persistTracking: the ledger after the session's usage is written under
\* the date of instant t
persistTracking(session, t) ==
  setTrackingEntry(session.groupId, todayDateStr(t), session.blockId,
                   session.usedSeconds)

\* the timers left after stopTracking's clearInterval
ClearedIntervals(session) == intervals \ {session.intervalId}

\* stopTracking, first part: nothing to do without a session, else the
\* final usage is written and the handler waits for the write
StopTracking(t) ==
  /\ Ready(t, "stop")
  /\ IF ~Tracking
       THEN /\ Go(t, Return(tasks[t]))
            /\ UNCHANGED ledger
       ELSE /\ ledger' = persistTracking(trackingState, now)
            /\ Go(t, [tasks[t] EXCEPT !.pc = "stop_p"])
  /\ UNCHANGED <<groups, pauses, nextRuleId, ruleIdMap, browserVars,
                 trackerVars, historyVars, probeVars, iconVars>>

\* stopTracking after the write: trackingState.intervalId is read, which
\* raises a TypeError when another handler has cleared the session meanwhile
StopPersisted(t) ==
  /\ Ready(t, "stop_p")
  /\ IF ~Tracking
       THEN /\ Throw(t, "stopTracking")
            /\ UNCHANGED trackerVars
       ELSE /\ intervals' = ClearedIntervals(trackingState)
            /\ trackingState' = NoSession
            /\ tickCounter' = 0
            /\ Go(t, Return(tasks[t]))
            /\ UNCHANGED failed
  /\ UNCHANGED <<storageVars, browserVars, redirects, accrued, ticks, started,
                 lastRebuild, probeVars, iconVars>>

\* startTracking up to the ledger read
StartTracking(t) ==
  /\ Ready(t, "ect_start")
  /\ Go(t, [tasks[t] EXCEPT
         !.pc = "start_e",
         !.used = getTrackingEntry(tasks[t].grp[tasks[t].best].id,
                    todayDateStr(now), tasks[t].bestDecision.activeBlock.id)])
  /\ UNCHANGED <<storageVars, browserVars, trackerVars, historyVars, probeVars, iconVars>>

\* startTracking after the ledger read: the session replaces whatever
\* trackingState holds, a new one-second timer is started and the icon is
\* updated
StartedTracking(t) ==
  /\ Ready(t, "start_e")
  /\ trackingState' =
       StartedSession(tasks[t].grp[tasks[t].best].id,
                      tasks[t].bestDecision.activeBlock, tasks[t].used,
                      tasks[t].tab.id, NewIntervalId)
  /\ tickCounter' = 0
  /\ intervals' = intervals \cup {NewIntervalId}
  /\ started' = tasks[t].used
  /\ UpdateIconAndReturn(t, tasks[t], SessionIcon(Remaining(trackingState')))
  /\ UNCHANGED <<storageVars, browserVars, redirects, accrued, ticks,
                 lastRebuild, probeVars>>

----------------------------------------------------------------------------
(* shouldGroupBlockNow as the handlers run it: two reads, two suspensions *)

Sgb(t) ==
  /\ Ready(t, "sgb")
  /\ Go(t, [tasks[t] EXCEPT !.pc = "sgb_p",
                            !.pauseRow = getPause(tasks[t].grp[tasks[t].g].id)])
  /\ UNCHANGED <<storageVars, browserVars, trackerVars, historyVars, probeVars, iconVars>>

SgbPause(t) ==
  LET me == tasks[t]
      d == DecideSchedule(me.grp[me.g], me.pauseRow, now)
  IN /\ Ready(t, "sgb_p")
     /\ IF d.reason # "budget"
          THEN Go(t, Return([me EXCEPT !.decision = d]))
          ELSE Go(t, [me EXCEPT !.pc = "sgb_t", !.decision = d,
                        !.used = getTrackingEntry(me.grp[me.g].id,
                                   todayDateStr(now), d.activeBlock.id)])
     /\ UNCHANGED <<storageVars, browserVars, trackerVars, historyVars, probeVars, iconVars>>

SgbTracking(t) ==
  LET me == tasks[t]
  IN /\ Ready(t, "sgb_t")
     /\ Go(t, Return([me EXCEPT
            !.decision = DecideBudget(me.decision.activeBlock, me.used)]))
     /\ UNCHANGED <<storageVars, browserVars, trackerVars, historyVars, probeVars, iconVars>>

----------------------------------------------------------------------------
(* evaluateCurrentTab: time-tracker.js *)

\* chrome.tabs.query({active: true, currentWindow: true})
QueryActiveTab ==
  IF active \in DOMAIN tabs THEN [id |-> active, url |-> tabs[active]]
  ELSE [id |-> 0, url |-> NoUrl]

\* chrome.tabs.update(tabId, {url}) on an open tab
UpdatedTabs(tabId, url) == [tabs EXCEPT ![tabId] = url]

EvaluateCurrentTab(t) ==
  /\ Ready(t, "ect")
  /\ Go(t, [tasks[t] EXCEPT !.pc = "ect_q", !.tab = QueryActiveTab])
  /\ UNCHANGED <<storageVars, browserVars, trackerVars, historyVars, probeVars, iconVars>>

\* after the tab query: no URL, the block notice, a browser page, or a page
\* whose groups are to be read
EctQueried(t) ==
  LET me == tasks[t]
  IN /\ Ready(t, "ect_q")
     /\ CASE me.tab.url.kind \in {"none", "chrome"} ->
               Go(t, StopThenIcon(me, DefaultIcon))
          [] me.tab.url.kind = "notice" ->
               Go(t, [me EXCEPT !.pc = "ect_n_groups", !.grp = groups])
          [] OTHER ->
               Go(t, [me EXCEPT !.pc = "ect_groups", !.grp = groups])
     /\ UNCHANGED <<storageVars, browserVars, trackerVars, historyVars, probeVars, iconVars>>

\* after getGroups: the matching groups, and the first decision is asked for
EctGroups(t) ==
  LET me == tasks[t]
      matching == findMatchingGroups(me.tab.url, me.grp)
  IN /\ Ready(t, "ect_groups")
     /\ IF Len(matching) = 0
          THEN Go(t, StopThenIcon(me, DefaultIcon))
          ELSE Go(t, Call([me EXCEPT !.matching = matching, !.i = 1,
                              !.g = matching[1], !.best = 0,
                              !.bestDecision = NoDecision],
                          "sgb", "ect_loop"))
     /\ UNCHANGED <<storageVars, browserVars, trackerVars, historyVars, probeVars, iconVars>>

\* Better with ties going to the group met last
BetterOrEqual(decision, best, bestDecision) ==
  best = 0 \/ decision.remainingSeconds <= bestDecision.remainingSeconds

\* `!bestDecision || decision.remainingSeconds < bestDecision.remainingSeconds`
Better(decision, best, bestDecision) ==
  best = 0 \/ decision.remainingSeconds < bestDecision.remainingSeconds

\* the loop of evaluateCurrentTab over the matching groups when nothing else
\* runs meanwhile, on the rows and the clock of the current state: the group
\* it ends on (blocked or paused), else the group it has kept as
\* mostRestrictive (0 if none), and the decision of that group
RECURSIVE MostRestrictive(_, _, _, _)
MostRestrictive(grp, matching, best, bestDecision) ==
  IF matching = <<>> THEN [g |-> best, decision |-> bestDecision]
  ELSE LET g == Head(matching)
           decision == shouldGroupBlockNow(grp[g])
       IN IF decision.block \/ decision.reason = "paused"
            THEN [g |-> g, decision |-> decision]
          ELSE IF decision.reason = "allowed" /\ Better(decision, best, bestDecision)
            THEN MostRestrictive(grp, Tail(matching), g, decision)
          ELSE MostRestrictive(grp, Tail(matching), best, bestDecision)

\* EctLoop without the paused branch: a paused group is passed over
EctLoopIgnoresPause(t) ==
  LET me == tasks[t]
      d == me.decision
      kept == IF d.reason = "allowed" /\ Better(d, me.best, me.bestDecision)
                THEN [me EXCEPT !.best = me.g, !.bestDecision = d]
                ELSE me
  IN /\ Ready(t, "ect_loop")
     /\ IF d.block THEN Go(t, Call(me, "stop", "ect_redirect"))
        ELSE IF me.i < Len(me.matching)
          THEN Go(t, Call([kept EXCEPT !.i = me.i + 1,
                                       !.g = me.matching[me.i + 1]],
                          "sgb", "ect_loop"))
        ELSE Go(t, [kept EXCEPT !.pc = "ect_pick"])
     /\ UNCHANGED <<storageVars, browserVars, trackerVars, historyVars, probeVars, iconVars>>

\* the body of the most-restrictive loop for the decision just made
EctLoop(t) ==
  LET me == tasks[t]
      d == me.decision
      kept == IF d.reason = "allowed" /\ Better(d, me.best, me.bestDecision)
                THEN [me EXCEPT !.best = me.g, !.bestDecision = d]
                ELSE me
  IN /\ Ready(t, "ect_loop")
     /\ IF d.block THEN Go(t, Call(me, "stop", "ect_redirect"))
        ELSE IF d.reason = "paused"
          THEN Go(t, StopThenIcon(me, PausedIcon(d.pausedUntil, now)))
        ELSE IF me.i < Len(me.matching)
          THEN Go(t, Call([kept EXCEPT !.i = me.i + 1,
                                       !.g = me.matching[me.i + 1]],
                          "sgb", "ect_loop"))
        ELSE Go(t, [kept EXCEPT !.pc = "ect_pick"])
     /\ UNCHANGED <<storageVars, browserVars, trackerVars, historyVars, probeVars, iconVars>>

\* the tab reference refreshed and the usage counted again from zero
RefreshedSessionFromZero(session, tabId) ==
  [session EXCEPT !.tabId = tabId, !.usedSeconds = 0]

\* `trackingState.tabId = tab.id`
RefreshedSession(session, tabId) == [session EXCEPT !.tabId = tabId]

\* after the loop: nothing allowed, the pair already tracked, or a new pair
EctPick(t) ==
  LET me == tasks[t]
  IN /\ Ready(t, "ect_pick")
     /\ IF me.best = 0
          THEN /\ Go(t, StopThenIcon(me, DefaultIcon))
               /\ UNCHANGED trackingState
        ELSE IF /\ Tracking
                /\ trackingState.groupId = me.grp[me.best].id
                /\ trackingState.blockId = me.bestDecision.activeBlock.id
          THEN /\ trackingState' = RefreshedSession(trackingState, me.tab.id)
               /\ Go(t, Return(me))
        ELSE /\ Go(t, Call(me, "stop", "ect_start"))
             /\ UNCHANGED trackingState
     /\ UNCHANGED <<storageVars, browserVars, tickCounter, intervals, historyVars, probeVars, iconVars>>

\* the blocked branch after stopTracking: the icon is updated, which ends
\* the handler if it fails, and the tab is sent to the block notice; a tab
\* closed meanwhile is ignored
EctRedirect(t) ==
  LET me == tasks[t]
      notice == NoticeUrl(me.grp[me.g].id, me.decision.reason,
                          AllowedMinutesText(me.decision), me.tab.url)
      done == updateIcon(iconCache, BlockedIcon, actionFails)
  IN /\ Ready(t, "ect_redirect")
     /\ iconCache' = done.cache
     /\ IF done.threw
          THEN /\ Throw(t, "updateIcon")
               /\ UNCHANGED tabs
          ELSE /\ tabs' = IF me.tab.id \in DOMAIN tabs
                            THEN UpdatedTabs(me.tab.id, notice) ELSE tabs
               /\ Go(t, Return(me))
               /\ UNCHANGED failed
     /\ UNCHANGED <<storageVars, now, active, installed, alarms, trackerVars,
                    redirects, accrued, ticks, started, lastRebuild,
                    probeVars, actionFails>>

\* updateIcon and return
EctEnd(t) ==
  /\ Ready(t, "ect_end")
  /\ UpdateIconAndReturn(t, tasks[t], tasks[t].icon)
  /\ UNCHANGED <<storageVars, browserVars, trackerVars, redirects, accrued,
                 ticks, started, lastRebuild, probeVars>>

\* the block notice is shown: the groups matching the original URL
EctNoticeGroups(t) ==
  LET me == tasks[t]
      matching == findMatchingGroups(OriginalUrl(me.tab.url), me.grp)
  IN /\ Ready(t, "ect_n_groups")
     /\ IF Len(matching) = 0
          THEN Go(t, StopThenIcon(me, BlockedIcon))
          ELSE Go(t, Call([me EXCEPT !.matching = matching, !.i = 1,
                              !.g = matching[1]],
                          "sgb", "ect_n_loop"))
     /\ UNCHANGED <<storageVars, browserVars, trackerVars, historyVars, probeVars, iconVars>>

\* the stillBlocked loop; when no matching group blocks any more the tab is
\* sent back to the original URL
EctNoticeLoop(t) ==
  LET me == tasks[t]
  IN /\ Ready(t, "ect_n_loop")
     /\ IF me.decision.block
          THEN /\ Go(t, StopThenIcon(me, BlockedIcon))
               /\ UNCHANGED tabs
        ELSE IF me.i < Len(me.matching)
          THEN /\ Go(t, Call([me EXCEPT !.i = me.i + 1,
                                        !.g = me.matching[me.i + 1]],
                             "sgb", "ect_n_loop"))
               /\ UNCHANGED tabs
        ELSE /\ tabs' = IF me.tab.id \in DOMAIN tabs
                          THEN UpdatedTabs(me.tab.id,
                                           Navigated(OriginalUrl(me.tab.url)))
                          ELSE tabs
             /\ Go(t, Return(me))
     /\ UNCHANGED <<storageVars, now, active, installed, alarms, trackerVars,
                    historyVars, probeVars, iconVars>>

----------------------------------------------------------------------------
(* rebuildAllRules: rule-engine.js *)

\* the handlers that are inside rebuildAllRules
Rebuilding == {t \in Tasks : tasks[t].nextId # 0 \/ tasks[t].pc \in {"rb", "rb_g"}}

\* getGroups is issued.  solo records that no other rebuild has been in
\* progress at any time of this one.
RebuildAllRules(t) ==
  /\ Ready(t, "rb")
  /\ tasks' = [u \in Tasks |->
       IF u = t THEN [tasks[t] EXCEPT !.pc = "rb_g", !.grp = groups,
                                      !.solo = (Rebuilding \ {t} = {})]
       ELSE IF u \in Rebuilding THEN [tasks[u] EXCEPT !.solo = FALSE]
       ELSE tasks[u]]
  /\ running' = 0
  /\ UNCHANGED <<storageVars, browserVars, trackerVars, historyVars, probeVars, iconVars>>

\* getNextRuleId is issued
RbGroups(t) ==
  /\ Ready(t, "rb_g")
  /\ Go(t, [tasks[t] EXCEPT !.pc = "rb_n", !.nextId = nextRuleId])
  /\ UNCHANGED <<storageVars, browserVars, trackerVars, historyVars, probeVars, iconVars>>

\* the loop over the groups starts
RbNext(t) ==
  LET me == [tasks[t] EXCEPT !.addRules = <<>>, !.decisions = <<>>]
  IN /\ Ready(t, "rb_n")
     /\ IF Len(me.grp) = 0
          THEN Go(t, [me EXCEPT !.pc = "rb_x"])
          ELSE Go(t, Call([me EXCEPT !.g = 1], "sgb", "rb_loop"))
     /\ UNCHANGED <<storageVars, browserVars, trackerVars, historyVars, probeVars, iconVars>>

\* the loop body for the decision just made: one rule per site of a group
\* that blocks
RbLoop(t) ==
  LET me == tasks[t]
      new == IF me.decision.block
               THEN CompileGroup(me.grp[me.g], me.decision, me.nextId)
               ELSE <<>>
      next == [me EXCEPT !.addRules = me.addRules \o new,
                         !.nextId = me.nextId + Len(new),
                         !.decisions = Append(me.decisions, me.decision)]
  IN /\ Ready(t, "rb_loop")
     /\ IF me.g < Len(me.grp)
          THEN Go(t, Call([next EXCEPT !.g = me.g + 1], "sgb", "rb_loop"))
          ELSE Go(t, [next EXCEPT !.pc = "rb_x"])
     /\ UNCHANGED <<storageVars, browserVars, trackerVars, historyVars, probeVars, iconVars>>

\* getDynamicRules is issued
RbExisting(t) ==
  /\ Ready(t, "rb_x")
  /\ Go(t, [tasks[t] EXCEPT !.pc = "rb_e", !.removeRuleIds = RuleIds(installed)])
  /\ UNCHANGED <<storageVars, browserVars, trackerVars, historyVars, probeVars, iconVars>>

\* updateDynamicRules is issued
RbUpdate(t) ==
  LET me == tasks[t]
  IN /\ Ready(t, "rb_e")
     /\ IF UpdateRejected(installed, me.removeRuleIds, me.addRules)
          THEN /\ Throw(t, "updateDynamicRules")
               /\ UNCHANGED installed
          ELSE /\ installed' =
                    updateDynamicRules(installed, me.removeRuleIds, me.addRules)
               /\ Go(t, [me EXCEPT !.pc = "rb_u"])
               /\ UNCHANGED failed
     /\ UNCHANGED <<storageVars, now, tabs, active, alarms, trackerVars,
                    redirects, accrued, ticks, started, lastRebuild, probeVars, iconVars>>

\* saveRuleIdMap is issued
RbSaveMap(t) ==
  LET me == tasks[t]
  IN /\ Ready(t, "rb_u")
     /\ ruleIdMap' = {<<r.groupId, r.siteId, r.id>> : r \in Range(me.addRules)}
     /\ Go(t, [me EXCEPT !.pc = "rb_m"])
     /\ UNCHANGED <<groups, ledger, pauses, nextRuleId, browserVars,
                    trackerVars, historyVars, probeVars, iconVars>>

\* saveNextRuleId is issued
RbSaveNext(t) ==
  LET me == tasks[t]
  IN /\ Ready(t, "rb_m")
     /\ nextRuleId' = me.nextId
     /\ Go(t, [me EXCEPT !.pc = "rb_s"])
     /\ UNCHANGED <<groups, ledger, pauses, ruleIdMap, browserVars,
                    trackerVars, historyVars, probeVars, iconVars>>

\* rebuildAllRules returns {addedCount, removedCount}
RbDone(t) ==
  LET me == tasks[t]
  IN /\ Ready(t, "rb_s")
     /\ lastRebuild' = [addedCount |-> Len(me.addRules),
                        removedCount |-> Cardinality(me.removeRuleIds)]
     /\ Go(t, Return([me EXCEPT !.nextId = 0, !.addRules = <<>>,
                                !.removeRuleIds = {}, !.decisions = <<>>,
                                !.solo = TRUE, !.grp = <<>>, !.g = 0,
                                !.pauseRow = -1, !.used = 0,
                                !.decision = NoDecision]))
     /\ UNCHANGED <<storageVars, browserVars, trackerVars, redirects, failed,
                    accrued, ticks, started, probeVars, iconVars>>

----------------------------------------------------------------------------
(* tick: time-tracker.js *)

\* the timer intervalId fires, while fewer than maxTicks ticks have been
\* delivered.  Without a session tick returns at once.  The usage is
\* incremented; every tenth tick, and on exhaustion, it is written to the
\* ledger and tick waits for the write.  A tick that ends with its icon
\* update needs no slot: nothing follows its last suspension.
Tick(limit, maxTicks, intervalId) ==
  LET session == TickedSession(trackingState)
      remaining == Remaining(session)
      tenth == (tickCounter + 1) % PersistEvery = 0
      rec == [IdleTask EXCEPT !.kind = "tick", !.remaining = remaining,
                !.pc = IF tenth THEN "tick_p1" ELSE "tick_p2"]
      done == updateIcon(iconCache, SessionIcon(remaining), actionFails)
  IN /\ running = 0
     /\ intervalId \in intervals
     /\ Tracking
     /\ ticks < maxTicks
     /\ ticks' = ticks + 1
     /\ trackingState' = session
     /\ tickCounter' = tickCounter + 1
     /\ accrued' = accrued \cup
          {<<session.groupId, todayDateStr(now), session.blockId>>}
     /\ ledger' = IF tenth \/ remaining <= 0
                    THEN persistTracking(session, now) ELSE ledger
     /\ IF remaining <= 0
          THEN /\ Spawn(limit, rec)
               /\ UNCHANGED <<failed, iconCache>>
          ELSE /\ iconCache' = done.cache
               /\ failed' = IF done.threw
                               THEN failed \cup {<<"tick", "updateIcon">>}
                               ELSE failed
               /\ UNCHANGED <<tasks, running>>
     /\ UNCHANGED <<groups, pauses, nextRuleId, ruleIdMap, browserVars,
                    intervals, redirects, started, lastRebuild, probeVars,
                    actionFails>>

\* after the every-tenth write, with the budget exhausted: persistTracking
\* again.  Without a session it returns at once and the read of
\* trackingState.tabId that follows raises a TypeError.
TickPersisted(t) ==
  /\ Ready(t, "tick_p1")
  /\ IF ~Tracking
       THEN /\ Throw(t, "tick")
            /\ UNCHANGED ledger
       ELSE /\ ledger' = persistTracking(trackingState, now)
            /\ Go(t, [tasks[t] EXCEPT !.pc = "tick_p2"])
            /\ UNCHANGED failed
  /\ UNCHANGED <<groups, pauses, nextRuleId, ruleIdMap, browserVars,
                 trackerVars, redirects, accrued, ticks, started, lastRebuild,
                 probeVars, iconVars>>

\* the exhaustion branch after its write: the session's tab, group and
\* budget are captured and stopTracking is called
TickExhausted(t) ==
  /\ Ready(t, "tick_p2")
  /\ IF ~Tracking
       THEN Throw(t, "tick")
       ELSE /\ Go(t, [tasks[t] EXCEPT
                 !.pc = "stop", !.stack = <<"rb", "tick_get">>,
                 !.tabId = trackingState.tabId,
                 !.groupId = trackingState.groupId,
                 !.allowedMinutes =
                    trackingState.allowedSeconds \div SecondsPerMinute])
            /\ UNCHANGED failed
  /\ UNCHANGED <<storageVars, browserVars, trackerVars, redirects, accrued,
                 ticks, started, lastRebuild, probeVars, iconVars>>

\* TickGetTab without the try: the failure of chrome.tabs.get ends tick
TickGetTabThrows(t) ==
  LET me == tasks[t]
  IN /\ Ready(t, "tick_get")
     /\ IF me.tabId \in DOMAIN tabs
          THEN /\ Go(t, [me EXCEPT !.pc = "tick_g", !.tabUrl = tabs[me.tabId]])
               /\ UNCHANGED failed
          ELSE Throw(t, "tick")
     /\ UNCHANGED <<storageVars, browserVars, trackerVars, redirects, accrued,
                    ticks, started, lastRebuild, probeVars, iconVars>>

\* chrome.tabs.get is issued; for a closed tab it fails, which is caught,
\* and tick ends with its icon update
TickGetTab(t) ==
  LET me == tasks[t]
  IN /\ Ready(t, "tick_get")
     /\ IF me.tabId \in DOMAIN tabs
          THEN /\ Go(t, [me EXCEPT !.pc = "tick_g", !.tabUrl = tabs[me.tabId]])
               /\ UNCHANGED <<failed, iconVars>>
          ELSE UpdateIconAndReturn(t, me, BlockedIcon)
     /\ UNCHANGED <<storageVars, browserVars, trackerVars, redirects, accrued,
                    ticks, started, lastRebuild, probeVars>>

\* getGroups is issued, for the group's name
TickGetGroups(t) ==
  /\ Ready(t, "tick_g")
  /\ Go(t, [tasks[t] EXCEPT !.pc = "tick_gg"])
  /\ UNCHANGED <<storageVars, browserVars, trackerVars, historyVars, probeVars, iconVars>>

\* the tracked tab is sent to the block notice, reason budget-exhausted,
\* and tick ends with its icon update
TickRedirect(t) ==
  LET me == tasks[t]
      notice == NoticeUrl(me.groupId, "budget-exhausted",
                          <<me.allowedMinutes>>, me.tabUrl)
  IN /\ Ready(t, "tick_gg")
     /\ IF me.tabId \in DOMAIN tabs
          THEN /\ tabs' = UpdatedTabs(me.tabId, notice)
               /\ redirects' = Append(redirects,
                                       [tabId |-> me.tabId, url |-> notice])
          ELSE UNCHANGED <<tabs, redirects>>
     /\ UpdateIconAndReturn(t, me, BlockedIcon)
     /\ UNCHANGED <<storageVars, now, active, installed, alarms, trackerVars,
                    accrued, ticks, started, lastRebuild, probeVars>>

\* onPersistAlarm: the heartbeat alarm writes the session's usage
PersistAlarm ==
  /\ running = 0
  /\ "persist" \in DOMAIN alarms
  /\ Tracking
  /\ ledger' = persistTracking(trackingState, now)
  /\ UNCHANGED <<groups, pauses, nextRuleId, ruleIdMap, browserVars,
                 trackerVars, tasks, running, historyVars, probeVars, iconVars>>

----------------------------------------------------------------------------
(* Handlers of service-worker.js *)

\* scheduleMidnightAlarm: 00:00:05 of the day after instant t, daily
NextMidnight(t) == (todayDateStr(t) + 1) * MinutesPerDay

SetAlarm(name, when, period) ==
  [k \in DOMAIN alarms \cup {name} |->
     IF k = name THEN [when |-> when, period |-> period] ELSE alarms[k]]

ClearAlarm(name) == [k \in DOMAIN alarms \ {name} |-> alarms[k]]

\* initialize: rebuildAllRules, setupAlarms, evaluateCurrentTab
InitializeTask ==
  [IdleTask EXCEPT !.kind = "initialize", !.pc = "rb", !.stack = <<"init_alarms">>]

\* setupAlarms: the heartbeat alarm is created
SetupAlarms(t) ==
  /\ Ready(t, "init_alarms")
  /\ alarms' = SetAlarm("persist", now, 1)
  /\ Go(t, [tasks[t] EXCEPT !.pc = "init_h"])
  /\ UNCHANGED <<storageVars, now, tabs, active, installed, trackerVars,
                 historyVars, probeVars, iconVars>>

\* setupAlarms: scheduleMidnightAlarm creates the midnight alarm
SetupMidnightAlarm(t) ==
  /\ Ready(t, "init_h")
  /\ alarms' = SetAlarm("midnight", NextMidnight(now), MinutesPerDay)
  /\ Go(t, [tasks[t] EXCEPT !.pc = "init_m"])
  /\ UNCHANGED <<storageVars, now, tabs, active, installed, trackerVars,
                 historyVars, probeVars, iconVars>>

\* setupAlarms: getAllActivePauses is issued
ReadPauses(t) ==
  /\ Ready(t, "init_m")
  /\ Go(t, [tasks[t] EXCEPT !.pc = "init_p", !.pauseRows = pauses])
  /\ UNCHANGED <<storageVars, browserVars, trackerVars, historyVars, probeVars, iconVars>>

\* setupAlarms: an expiry alarm for every pause that is still active; then
\* evaluateCurrentTab
RestorePauseAlarms(t) ==
  LET rows == tasks[t].pauseRows
      live == getAllActivePauses(rows, now)
  IN /\ Ready(t, "init_p")
     /\ alarms' = [k \in DOMAIN alarms \cup live |->
           IF k \in live THEN [when |-> rows[k], period |-> 0] ELSE alarms[k]]
     /\ Go(t, [tasks[t] EXCEPT !.pc = "ect", !.pauseRows = <<>>])
     /\ UNCHANGED <<storageVars, now, tabs, active, installed, trackerVars,
                    historyVars, probeVars, iconVars>>

\* runtime.onStartup: a second initialize, while the one started when the
\* worker was loaded waits for its first read
Startup(limit) ==
  /\ \E t \in Tasks : tasks[t].kind = "initialize" /\ tasks[t].pc = "rb_g"
  /\ \A t, u \in Tasks :
        tasks[t].kind = "initialize" /\ tasks[u].kind = "initialize" => t = u
  /\ lastRebuild.addedCount = -1
  /\ Spawn(limit, InitializeTask)
  /\ UNCHANGED <<storageVars, browserVars, trackerVars, historyVars, probeVars, iconVars>>

\* the worker, terminated while nothing was in progress, is loaded again:
\* initialize() is called; what is stored, installed and scheduled is kept,
\* the variables of the modules are new
WorkerLoaded ==
  /\ Busy = {}
  /\ ~Tracking
  /\ intervals = {}
  /\ nextRuleId <= MaxRuleId
  /\ Spawn(1, InitializeTask)
  /\ iconCache' = NoIcon
  /\ UNCHANGED <<storageVars, browserVars, trackerVars, historyVars, probeVars,
                 actionFails>>

\* message pause-activated: handlePauseActivated issues setPause
PauseActivated(limit, groupId, pausedUntil) ==
  /\ nextRuleId <= MaxRuleId
  /\ pausedUntil > now
  /\ pauses' = setPause(groupId, pausedUntil)
  /\ Spawn(limit, [IdleTask EXCEPT !.kind = "pause-activated", !.pc = "pa_s",
                     !.groupId = groupId, !.pausedUntil = pausedUntil])
  /\ UNCHANGED <<groups, ledger, nextRuleId, ruleIdMap, browserVars,
                 trackerVars, historyVars, probeVars, iconVars>>

\* handlePauseActivated that creates no expiry alarm
PauseAlarmNotCreated(t) ==
  /\ Ready(t, "pa_s")
  /\ Go(t, [tasks[t] EXCEPT !.pc = "pa_a"])
  /\ UNCHANGED <<storageVars, browserVars, trackerVars, historyVars, probeVars,
                 iconVars>>

\* handlePauseActivated: the expiry alarm is created
PauseAlarmCreated(t) ==
  /\ Ready(t, "pa_s")
  /\ alarms' = SetAlarm(tasks[t].groupId, tasks[t].pausedUntil, 0)
  /\ Go(t, [tasks[t] EXCEPT !.pc = "pa_a"])
  /\ UNCHANGED <<storageVars, now, tabs, active, installed, trackerVars,
                 historyVars, probeVars, iconVars>>

\* handlePauseActivated, handlePauseExpiry: rebuildAllRules, then
\* evaluateCurrentTab
RebuildThenEvaluate(t) ==
  /\ \/ Ready(t, "pa_a")
     \/ Ready(t, "px_c")
  /\ Go(t, [tasks[t] EXCEPT !.pc = "rb", !.stack = <<"ect">>])
  /\ UNCHANGED <<storageVars, browserVars, trackerVars, historyVars, probeVars, iconVars>>

\* message pause-ended: the expiry alarm is cleared
PauseEnded(limit, groupId) ==
  /\ nextRuleId <= MaxRuleId
  /\ groupId \in DOMAIN pauses
  /\ alarms' = ClearAlarm(groupId)
  /\ Spawn(limit, [IdleTask EXCEPT !.kind = "pause-ended", !.pc = "pe_c",
                     !.groupId = groupId])
  /\ UNCHANGED <<storageVars, now, tabs, active, installed, trackerVars,
                 historyVars, probeVars, iconVars>>

\* handlePauseExpiry after alarms.clear: clearPause is issued
PauseEndedCleared(t) ==
  /\ Ready(t, "pe_c")
  /\ pauses' = clearPause(tasks[t].groupId)
  /\ Go(t, [tasks[t] EXCEPT !.pc = "px_c"])
  /\ UNCHANGED <<groups, ledger, nextRuleId, ruleIdMap, browserVars,
                 trackerVars, historyVars, probeVars, iconVars>>

\* the alarm pause-expiry::groupId is due: handlePauseExpiry issues clearPause
PauseExpiryAlarm(limit, groupId) ==
  /\ groupId \in DOMAIN alarms
  /\ groupId \notin {"persist", "midnight"}
  /\ alarms[groupId].when <= now
  /\ alarms' = ClearAlarm(groupId)
  /\ pauses' = clearPause(groupId)
  /\ Spawn(limit, [IdleTask EXCEPT !.kind = "pause-expiry", !.pc = "px_c",
                     !.groupId = groupId])
  /\ UNCHANGED <<groups, ledger, nextRuleId, ruleIdMap, now, tabs, active,
                 installed, trackerVars, historyVars, probeVars, iconVars>>

\* the alarm midnight-rollover is due: handleMidnightRollover calls
\* stopTracking, rebuildAllRules, evaluateCurrentTab, scheduleMidnightAlarm
MidnightAlarm(limit) ==
  /\ "midnight" \in DOMAIN alarms
  /\ alarms["midnight"].when <= now
  /\ alarms' = SetAlarm("midnight",
                        alarms["midnight"].when + alarms["midnight"].period,
                        alarms["midnight"].period)
  /\ Spawn(limit, [IdleTask EXCEPT !.kind = "midnight", !.pc = "stop",
                     !.stack = <<"rb", "ect", "mid_sched">>])
  /\ UNCHANGED <<storageVars, now, tabs, active, installed, trackerVars,
                 historyVars, probeVars, iconVars>>

ScheduleMidnightAlarm(t) ==
  /\ Ready(t, "mid_sched")
  /\ alarms' = SetAlarm("midnight", NextMidnight(now), MinutesPerDay)
  /\ Go(t, Return(tasks[t]))
  /\ UNCHANGED <<storageVars, now, tabs, active, installed, trackerVars,
                 historyVars, probeVars, iconVars>>

\* windows.onFocusChanged with WINDOW_ID_NONE: stopTracking, then the
\* default icon
FocusLost(limit) ==
  /\ Tracking
  /\ Spawn(limit, [IdleTask EXCEPT !.kind = "focus-lost", !.pc = "stop",
                     !.stack = <<"ect_end">>])
  /\ UNCHANGED <<storageVars, browserVars, trackerVars, historyVars, probeVars, iconVars>>

\* tabs.onUpdated: the active tab navigates to url; evaluateCurrentTab
Navigate(limit, url) ==
  /\ active \in DOMAIN tabs
  /\ Cardinality(intervals) + Cardinality(Busy) < MaxIntervals
  /\ tabs' = UpdatedTabs(active, Navigated(url))
  /\ Spawn(limit, [IdleTask EXCEPT !.kind = "tab-event", !.pc = "ect"])
  /\ UNCHANGED <<storageVars, now, active, installed, alarms, trackerVars,
                 historyVars, probeVars, iconVars>>

\* tabs.onUpdated (status complete), tabs.onActivated, windows.onFocusChanged
\* to a window: evaluateCurrentTab
TabEvent(limit) ==
  /\ Cardinality(intervals) + Cardinality(Busy) < MaxIntervals
  /\ Spawn(limit, [IdleTask EXCEPT !.kind = "tab-event", !.pc = "ect"])
  /\ UNCHANGED <<storageVars, browserVars, trackerVars, historyVars, probeVars, iconVars>>

\* storage.onChanged with changes.groups: rebuildAllRules, then
\* evaluateCurrentTab
GroupsChangedTask ==
  [IdleTask EXCEPT !.kind = "groups-changed", !.pc = "rb", !.stack = <<"ect">>]

\* the ids of the time blocks stored
StoredBlockIds ==
  UNION {{groups[g].allowedTimeBlocks[i].id :
            i \in 1..Len(groups[g].allowedTimeBlocks)} : g \in 1..Len(groups)}

\* the dashboard saves a new time block: addTimeBlock stores the groups with
\* the block, under an id not in use, and the worker is notified of the change
AddTimeBlock(limit, groupId, blockConfig) ==
  /\ nextRuleId <= MaxRuleId
  /\ \E g \in 1..Len(groups) :
        groups[g].id = groupId /\ Len(groups[g].allowedTimeBlocks) < MaxBlocks
  /\ groups' = addTimeBlock(groups, groupId, blockConfig,
                  CHOOSE id \in {"b1", "b2", "b3", "b4"} : id \notin StoredBlockIds)
  /\ Spawn(limit, GroupsChangedTask)
  /\ UNCHANGED <<ledger, pauses, nextRuleId, ruleIdMap, browserVars,
                 trackerVars, historyVars, probeVars, iconVars>>

\* a time block is edited: updateTimeBlock stores the groups with the block
\* updated, and the worker is notified of the change
UpdateTimeBlock(limit, groupId, blockId, updates) ==
  /\ nextRuleId <= MaxRuleId
  /\ \E g \in 1..Len(groups) :
        /\ groups[g].id = groupId
        /\ \E i \in 1..Len(groups[g].allowedTimeBlocks) :
              groups[g].allowedTimeBlocks[i].id = blockId
  /\ groups' = updateTimeBlock(groups, groupId, blockId, updates)
  /\ groups' # groups
  /\ Spawn(limit, GroupsChangedTask)
  /\ UNCHANGED <<ledger, pauses, nextRuleId, ruleIdMap, browserVars,
                 trackerVars, historyVars, probeVars, iconVars>>

\* the answer {matched: false} of get-tab-status
NoStatus == [matched |-> FALSE, groupId |-> "none", decision |-> NoDecision]

\* message get-tab-status: getTabStatus(url) answers {matched: false} for an
\* empty URL, else it issues getGroups
GetTabStatus(limit, url) ==
  /\ running = 0
  /\ Cardinality(Busy) < limit
  /\ call' = <<"getTabStatus", <<url>>>>
  /\ IF url.kind = "none"
       THEN /\ result' = <<NoStatus>>
            /\ UNCHANGED <<tasks, running>>
       ELSE /\ result' = <<>>
            /\ Spawn(limit, [IdleTask EXCEPT !.kind = "get-tab-status",
                               !.pc = "gts_g", !.tabUrl = url, !.grp = groups])
  /\ UNCHANGED <<storageVars, browserVars, trackerVars, historyVars, iconVars>>

\* getTabStatus after getGroups: no match, or the decision of the first
\* matching group is asked for
GtsGroups(t) ==
  LET me == tasks[t]
      matching == findMatchingGroups(me.tabUrl, me.grp)
  IN /\ Ready(t, "gts_g")
     /\ IF Len(matching) = 0
          THEN /\ result' = <<NoStatus>>
               /\ Go(t, Return(me))
          ELSE /\ Go(t, Call([me EXCEPT !.matching = matching,
                                        !.g = matching[1]],
                             "sgb", "gts_r"))
               /\ UNCHANGED result
     /\ UNCHANGED <<storageVars, browserVars, trackerVars, historyVars, call,
                    iconVars>>

\* getTabStatus answers {matched: true, groupId, groupName, ...decision}
GtsReply(t) ==
  LET me == tasks[t]
  IN /\ Ready(t, "gts_r")
     /\ result' = <<[matched |-> TRUE, groupId |-> me.grp[me.g].id,
                     decision |-> me.decision]>>
     /\ Go(t, Return(me))
     /\ UNCHANGED <<storageVars, browserVars, trackerVars, historyVars, call,
                    iconVars>>

\* the chrome.action calls in fails begin to fail, the others to work
ActionCallsFail(fails) ==
  /\ running = 0
  /\ actionFails # fails
  /\ actionFails' = fails
  /\ UNCHANGED <<storageVars, browserVars, trackerVars, tasks, running,
                 historyVars, probeVars, iconCache>>

\* the user closes the active tab, the only one: no tab is active any more
TabClosed ==
  /\ running = 0
  /\ active \in DOMAIN tabs
  /\ tabs' = [k \in DOMAIN tabs \ {active} |-> tabs[k]]
  /\ active' = 0
  /\ UNCHANGED <<storageVars, now, installed, alarms, trackerVars, tasks,
                 running, historyVars, probeVars, iconVars>>

\* time passes, to one of the instants
ClockAdvance(instants) ==
  /\ running = 0
  /\ \E t \in instants : t > now /\ now' = t
  /\ UNCHANGED <<storageVars, tabs, active, installed, alarms, trackerVars,
                 tasks, running, historyVars, probeVars, iconVars>>


----------------------------------------------------------------------------
(* The configuration checked *)

\* a group without time blocks, and a group with one block of one minute on
\* Thursday and Friday from 10:00 to 10:01
Group1 ==
  [id |-> "g1", name |-> "g1", sites |-> <<[id |-> "s1", pattern |-> Str1]>>,
   allowedTimeBlocks |-> <<>>]

Block1 ==
  [id |-> "b1", days |-> {"thu", "fri"}, startTime |-> <<10, 0>>,
   endTime |-> <<10, 1>>, allDay |-> FALSE, allowedMinutes |-> 1]

Group2 ==
  [id |-> "g2", name |-> "g2", sites |-> <<[id |-> "s2", pattern |-> Str2]>>,
   allowedTimeBlocks |-> <<Block1>>]

\* a page of the first group, a page of the second, a page of no group
Url1 == WebUrl(Str1, Slash)
Url2 == WebUrl(Str2, Slash)
Url3 == WebUrl(Str3, Slash)

\* 10:00 and 10:02 of every day of the model
Instants ==
  {d * MinutesPerDay + m : d \in 0..MaxDay,
     m \in {timeStrToMinutes(<<10, 0>>), timeStrToMinutes(<<10, 2>>)}}

FirstInstant == CHOOSE t \in Instants : \A u \in Instants : t <= u

\* the budget of Block1, in seconds
Budget1 == Block1.allowedMinutes * SecondsPerMinute

\* the ledger that holds usage u for the second group's block today
LedgerWith(u) ==
  IF u = 0 THEN <<>>
  ELSE [k \in {<<"g2", todayDateStr(FirstInstant), "b1">>} |-> u]

AlwaysBlocked == [NoDecision EXCEPT !.block = TRUE, !.reason = "always-blocked"]

\* the icon cache after updateIcon('default') on a worker just loaded
SettledIcon == updateIcon(NoIcon, DefaultIcon, {}).cache

\* the service worker has just been loaded: storage holds the groups and
\* today's usage, no rule is installed, and initialize() has been called
InitLoaded(usages, url) ==
  /\ now = FirstInstant
  /\ tabs = [id \in {1} |-> url]
  /\ active = 1
  /\ groups = <<Group1, Group2>>
  /\ \E u \in usages : ledger = LedgerWith(u) /\ accrued = DOMAIN ledger
  /\ pauses = <<>>
  /\ nextRuleId = FirstRuleId
  /\ ruleIdMap = {}
  /\ installed = {}
  /\ alarms = <<>>
  /\ trackingState = NoSession
  /\ tickCounter = 0
  /\ intervals = {}
  /\ tasks = [t \in Tasks |-> IF t = 1 THEN InitializeTask ELSE IdleTask]
  /\ running = 1
  /\ redirects = <<>>
  /\ failed = {}
  /\ iconCache = NoIcon
  /\ actionFails = {}
  /\ ticks = 0
  /\ started = -1
  /\ lastRebuild = [addedCount |-> -1, removedCount |-> -1]
  /\ call = NoCall
  /\ result = <<>>

\* initialize() has completed on a tab that matches no group: the rule of
\* the group without time blocks is installed and the alarms are set
InitSettled(usages, url) ==
  /\ now = FirstInstant
  /\ tabs = [id \in {1} |-> url]
  /\ active = 1
  /\ groups = <<Group1, Group2>>
  /\ \E u \in usages : ledger = LedgerWith(u) /\ accrued = DOMAIN ledger
  /\ pauses = <<>>
  /\ nextRuleId = FirstRuleId + 1
  /\ ruleIdMap = {<<"g1", "s1", FirstRuleId>>}
  /\ installed = Range(CompileGroup(Group1, AlwaysBlocked, FirstRuleId))
  /\ alarms = [k \in {"persist", "midnight"} |->
        IF k = "persist" THEN [when |-> FirstInstant, period |-> 1]
        ELSE [when |-> NextMidnight(FirstInstant), period |-> MinutesPerDay]]
  /\ trackingState = NoSession
  /\ tickCounter = 0
  /\ intervals = {}
  /\ tasks = [t \in Tasks |-> IdleTask]
  /\ running = 0
  /\ redirects = <<>>
  /\ failed = {}
  /\ iconCache = SettledIcon
  /\ actionFails = {}
  /\ ticks = 0
  /\ started = -1
  /\ lastRebuild = [addedCount |-> 1, removedCount |-> 0]
  /\ call = NoCall
  /\ result = <<>>

\* no handler is in progress
Quiescent == Busy = {}

\* the steps of the handlers in progress, by the function they belong to
StopStep(t) == StopTracking(t) \/ StopPersisted(t)

StartStep(t) == StartTracking(t) \/ StartedTracking(t)

DecideStep(t) == Sgb(t) \/ SgbPause(t) \/ SgbTracking(t)

EvaluateStep(t) ==
  \/ EvaluateCurrentTab(t) \/ EctQueried(t) \/ EctGroups(t) \/ EctLoop(t)
  \/ EctPick(t) \/ EctEnd(t)

NoticeStep(t) == EctRedirect(t) \/ EctNoticeGroups(t) \/ EctNoticeLoop(t)

RebuildStep(t) ==
  \/ RebuildAllRules(t) \/ RbGroups(t) \/ RbNext(t) \/ RbLoop(t)
  \/ RbExisting(t) \/ RbUpdate(t) \/ RbSaveMap(t) \/ RbSaveNext(t) \/ RbDone(t)

InitializeStep(t) ==
  \/ SetupAlarms(t) \/ SetupMidnightAlarm(t) \/ ReadPauses(t)
  \/ RestorePauseAlarms(t)

ExhaustionStep(t) ==
  \/ TickExhausted(t) \/ TickGetTab(t) \/ TickGetGroups(t) \/ TickRedirect(t)

PauseStep(t) ==
  \/ PauseAlarmCreated(t) \/ RebuildThenEvaluate(t) \/ PauseEndedCleared(t)

StatusStep(t) == GtsGroups(t) \/ GtsReply(t)

----------------------------------------------------------------------------
(* SpecTrack: the tracking loop under overlapping navigations, focus loss,  *)
(* the heartbeat alarm and ticks, with a budget that does not run out.      *)

InitTrack == InitSettled({0}, Url3)

NextTrack ==
  \/ \E t \in Tasks : StopStep(t) \/ StartStep(t) \/ DecideStep(t) \/ EvaluateStep(t)
  \/ \E i \in intervals : Tick(MaxTasks, MaxTicks, i)
  \/ PersistAlarm
  \/ FocusLost(MaxTasks)
  \/ \E u \in {Url2, Url3} : Navigate(MaxTasks, u)

SpecTrack == InitTrack /\ [][NextTrack]_vars

----------------------------------------------------------------------------
(* SpecTicks: one session whose budget is about to run out, and the timer   *)
(* firing while earlier ticks are suspended in their exhaustion branch.     *)

InitTicks == InitSettled({Budget1 - 1}, Url3)

NextTicks ==
  \/ \E t \in Tasks : StopStep(t) \/ StartStep(t) \/ DecideStep(t) \/ EvaluateStep(t)
  \/ \E t \in Tasks : ExhaustionStep(t) \/ RebuildStep(t)
  \/ \E t \in Tasks : EctNoticeGroups(t) \/ EctNoticeLoop(t)
  \/ \E i \in intervals : Tick(MaxTasks + 1, MaxTicks, i)
  \/ Quiescent /\ Navigate(MaxTasks, Url2)

SpecTicks == InitTicks /\ [][NextTicks]_vars

----------------------------------------------------------------------------
(* SpecDay: one handler at a time, while the clock passes midnight: a       *)
(* session, ticks, the heartbeat alarm and the midnight alarm.              *)

InitDay == InitSettled({0}, Url3)

NextDay ==
  \/ \E t \in Tasks : StopStep(t) \/ StartStep(t) \/ DecideStep(t) \/ EvaluateStep(t)
  \/ \E t \in Tasks : NoticeStep(t) \/ RebuildStep(t) \/ ScheduleMidnightAlarm(t)
  \/ \E i \in intervals : Tick(1, MaxTicks, i)
  \/ PersistAlarm
  \/ MidnightAlarm(1)
  \/ ClockAdvance(Instants)
  \/ \E u \in {Url2, Url3} : Navigate(1, u)

SpecDay == InitDay /\ [][NextDay]_vars

----------------------------------------------------------------------------
(* SpecBudget: one uninterrupted session.  The tab is navigated to a page   *)
(* of the second group and ticks arrive one at a time, each after the       *)
(* handler of the one before has completed.                                 *)

InitBudget == InitSettled({Budget1 - PersistEvery, Budget1 - 2}, Url3)

NextBudget ==
  \/ \E t \in Tasks : StopStep(t) \/ StartStep(t) \/ DecideStep(t) \/ EvaluateStep(t)
  \/ \E t \in Tasks : ExhaustionStep(t) \/ TickPersisted(t) \/ RebuildStep(t)
  \/ \E t \in Tasks : EctNoticeGroups(t) \/ EctNoticeLoop(t)
  \/ \E i \in intervals : Quiescent /\ Tick(1, PersistEvery, i)
  \/ Navigate(1, Url2)

SpecBudget == InitBudget /\ [][NextBudget]_vars

----------------------------------------------------------------------------
(* SpecPause: one handler at a time, from the load of the service worker on *)
(* a tab that matches no group: pauses asked for and ended from the popup,  *)
(* pause-expiry alarms, and the clock, which advances between handlers.     *)

InitPause == InitLoaded({0, Budget1}, Url3)

NextPause ==
  \/ \E t \in Tasks : StopTracking(t) \/ DecideStep(t) \/ RebuildStep(t)
  \/ \E t \in Tasks : EvaluateCurrentTab(t) \/ EctQueried(t) \/ EctGroups(t)
  \/ \E t \in Tasks : EctEnd(t) \/ InitializeStep(t) \/ PauseStep(t)
  \/ \E g \in {"g1", "g2"} : PauseActivated(1, g, now + PauseMinutes)
  \/ \E g \in {"g1", "g2"} : PauseEnded(1, g)
  \/ \E g \in {"g1", "g2"} : PauseExpiryAlarm(1, g)
  \/ Quiescent /\ ClockAdvance(Instants)

SpecPause == InitPause /\ [][NextPause]_vars

----------------------------------------------------------------------------
(* SpecRules: overlapping handlers that rebuild the rules, on a tab that    *)
(* matches no group: pauses of the first group asked for from the popup,    *)
(* the expiry alarm, and the clock.                                         *)

InitRules == InitSettled({0}, Url3)

NextRules ==
  \/ \E t \in Tasks : StopTracking(t) \/ DecideStep(t) \/ RebuildStep(t)
  \/ \E t \in Tasks : EvaluateCurrentTab(t) \/ EctQueried(t) \/ EctGroups(t)
  \/ \E t \in Tasks : EctEnd(t)
  \/ \E t \in Tasks : PauseAlarmCreated(t) \/ RebuildThenEvaluate(t)
  \/ PauseActivated(MaxTasks, "g1", now + PauseMinutes)
  \/ PauseExpiryAlarm(MaxTasks, "g1")
  \/ ClockAdvance({FirstInstant + PauseMinutes})

SpecRules == InitRules /\ [][NextRules]_vars

----------------------------------------------------------------------------
(* SpecMatch: pages that match two groups.  A third group has a site on the *)
(* domain of each of the other two; the groups are stored in either order.  *)
(* One handler at a time: navigations, pauses asked for from the popup,     *)
(* pause-expiry alarms, ticks, and the clock, which advances between        *)
(* handlers.                                                                *)

Block3 == [Block1 EXCEPT !.id = "b3"]

Group3 ==
  [id |-> "g3", name |-> "g3",
   sites |-> <<[id |-> "s3", pattern |-> Str1], [id |-> "s4", pattern |-> Str2]>>,
   allowedTimeBlocks |-> <<Block3>>]

GroupOrders == {<<Group1, Group2, Group3>>, <<Group3, Group2, Group1>>}

\* the usage a block has today when the worker is loaded
Usages == {0, Budget1 \div 2}

\* the ledger that holds usage u2 and u3 for the blocks of the second and the
\* third group today
LedgerOf(u2, u3) ==
  LET day == todayDateStr(FirstInstant)
      keys == (IF u2 = 0 THEN {} ELSE {<<"g2", day, "b1">>})
                \cup (IF u3 = 0 THEN {} ELSE {<<"g3", day, "b3">>})
  IN [k \in keys |-> IF k[1] = "g2" THEN u2 ELSE u3]

\* initialize() has completed on a tab that matches no group
InitMatch ==
  /\ now = FirstInstant
  /\ tabs = [id \in {1} |-> Url3]
  /\ active = 1
  /\ groups \in GroupOrders
  /\ \E u2, u3 \in Usages : ledger = LedgerOf(u2, u3)
  /\ accrued = DOMAIN ledger
  /\ pauses = <<>>
  /\ nextRuleId = FirstRuleId + 1
  /\ ruleIdMap = {<<"g1", "s1", FirstRuleId>>}
  /\ installed = Range(CompileGroup(Group1, AlwaysBlocked, FirstRuleId))
  /\ alarms = [k \in {"persist", "midnight"} |->
        IF k = "persist" THEN [when |-> FirstInstant, period |-> 1]
        ELSE [when |-> NextMidnight(FirstInstant), period |-> MinutesPerDay]]
  /\ trackingState = NoSession
  /\ tickCounter = 0
  /\ intervals = {}
  /\ tasks = [t \in Tasks |-> IdleTask]
  /\ running = 0
  /\ redirects = <<>>
  /\ failed = {}
  /\ iconCache = SettledIcon
  /\ actionFails = {}
  /\ ticks = 0
  /\ started = -1
  /\ lastRebuild = [addedCount |-> 1, removedCount |-> 0]
  /\ call = NoCall
  /\ result = <<>>

NextMatch ==
  \/ \E t \in Tasks : StopStep(t) \/ StartStep(t) \/ DecideStep(t) \/ EvaluateStep(t)
  \/ \E t \in Tasks : NoticeStep(t) \/ RebuildStep(t)
  \/ \E t \in Tasks : PauseAlarmCreated(t) \/ RebuildThenEvaluate(t)
  \/ \E g \in {"g1", "g3"} : PauseActivated(1, g, now + PauseMinutes)
  \/ \E g \in {"g1", "g3"} : PauseExpiryAlarm(1, g)
  \/ \E i \in intervals : Quiescent /\ Tick(1, MaxTicks, i)
  \/ \E u \in {Url1, Url2} : Navigate(1, u)
  \/ Quiescent /\ ClockAdvance({FirstInstant + PauseMinutes})

SpecMatch == InitMatch /\ [][NextMatch]_vars

----------------------------------------------------------------------------
(* SpecStatus: one handler at a time, the three groups in either order, the *)
(* popup asking for the status of a page of each group, pauses of the third *)
(* group and their expiry, and the clock.                                   *)

InitStatus == InitMatch

NextStatus ==
  \/ \E t \in Tasks : StopTracking(t) \/ DecideStep(t) \/ RebuildStep(t)
  \/ \E t \in Tasks : EvaluateCurrentTab(t) \/ EctQueried(t) \/ EctGroups(t)
  \/ \E t \in Tasks : EctEnd(t) \/ StatusStep(t)
  \/ \E t \in Tasks : PauseAlarmCreated(t) \/ RebuildThenEvaluate(t)
  \/ \E u \in {Url1, Url2, Url3, NoUrl} : GetTabStatus(1, u)
  \/ PauseActivated(1, "g3", now + PauseMinutes)
  \/ PauseExpiryAlarm(1, "g3")
  \/ ClockAdvance({FirstInstant + PauseMinutes})

SpecStatus == InitStatus /\ [][NextStatus]_vars

----------------------------------------------------------------------------
(* SpecStale: one handler at a time, a session on a block that has been     *)
(* used for more than ten seconds today, ticks, the heartbeat alarm, and    *)
(* the clock reaching midnight, when the midnight alarm becomes due.        *)

InitStale == InitSettled({PersistEvery + 1}, Url3)

NextStale ==
  \/ \E t \in Tasks : StopStep(t) \/ StartStep(t) \/ DecideStep(t) \/ EvaluateStep(t)
  \/ \E t \in Tasks : NoticeStep(t) \/ RebuildStep(t) \/ ScheduleMidnightAlarm(t)
  \/ \E i \in intervals : Tick(1, MaxTicks, i)
  \/ PersistAlarm
  \/ MidnightAlarm(1)
  \/ ClockAdvance({NextMidnight(FirstInstant)})
  \/ \E u \in {Url2, Url3} : Navigate(1, u)

SpecStale == InitStale /\ [][NextStale]_vars

----------------------------------------------------------------------------
(* SpecCalls: the pure functions, each called once on arguments drawn from  *)
(* a bounded set; isInsideTimeBlock and getNextTimeWindowBoundary read the  *)
(* clock, which is drawn too.                                               *)

\* the raw patterns made of at most n pieces
RECURSIVE RawPatterns(_)
RawPatterns(n) ==
  IF n = 0 THEN {<<>>}
  ELSE RawPatterns(n - 1) \cup
       {r \o p : r \in RawPatterns(n - 1),
                 p \in {Space, Www, Http, Slash, Str1, <<"A">>}}

\* times of day a block starts or ends at, and the blocks called with
BlockTimes == {<<0, 0>>, <<10, 0>>, <<10, 1>>, <<23, 59>>}

CallBlocks ==
  {[Block1 EXCEPT !.days = d, !.startTime = s, !.endTime = e] :
     d \in {{"thu"}, {"fri"}, {"thu", "fri"}}, s \in BlockTimes, e \in BlockTimes}

\* the instants the clock shows when isInsideTimeBlock is called
CallInstants ==
  {d * MinutesPerDay + m : d \in 0..MaxDay,
     m \in {0, 1} \cup {timeStrToMinutes(e) + k : e \in BlockTimes \ {<<23, 59>>}, k \in {0, 1}}
          \cup {timeStrToMinutes(<<23, 59>>)}}

CallHosts ==
  {Str1, <<"A", ".", "b">>, <<"c", ".">> \o Str1, <<"c">> \o Str1, Str2,
   Str1 \o <<".", "c">>}

CallPaths ==
  {Slash, <<"/", "r">>, <<"/", "R">>, <<"/", "r", "d">>,
   <<"/", "r", "/", "d">>, <<"/", "d">>}

CallPatterns ==
  {Str1, <<"A", ".", "B">>, Str1 \o <<"/", "r">>, Str1 \o <<"/", "R">>,
   Str1 \o Slash, Str1 \o <<"/", "r", "/", "d">>, Str2}

\* the ports of the URLs the rule regex is matched against: none, or 8
CallPorts == {<<>>, <<"8">>}

\* the groups lists getNextTimeWindowBoundary is called with: empty, one
\* group with one or two blocks, two groups with a block each
CallGroups ==
  LET blocks == {b \in CallBlocks : "thu" \in b.days}
      With(group, bs) == [group EXCEPT !.allowedTimeBlocks = bs]
  IN {<<>>, <<Group1>>}
       \cup {<<With(Group2, <<b>>)>> : b \in blocks}
       \cup {<<With(Group2, <<b, c>>)>> : b \in blocks, c \in blocks}
       \cup {<<With(Group1, <<b>>), With(Group2, <<c>>)>> : b \in blocks, c \in blocks}

Calls ==
  {<<"normalizeSitePattern", <<r>>>> : r \in RawPatterns(MaxPieces)}
    \cup {<<"isInsideTimeBlock", <<b>>>> : b \in CallBlocks}
    \cup {<<"getNextTimeWindowBoundary", <<g>>>> : g \in CallGroups}
    \cup {<<"doesUrlMatchSite", <<h, p, [id |-> "s1", pattern |-> q]>>>> :
             h \in CallHosts, p \in CallPaths, q \in CallPatterns}
    \cup {<<"sitePatternToRegexFilter", <<q, WebUrlPort(h, n, p)>>>> :
             h \in CallHosts, n \in CallPorts, p \in CallPaths,
             q \in CallPatterns}

\* nothing is stored, installed or in progress; a function is about to be
\* called
InitCalls ==
  /\ call \in Calls
  /\ result = <<>>
  /\ now \in (IF call[1] \in {"isInsideTimeBlock", "getNextTimeWindowBoundary"}
                THEN CallInstants ELSE {FirstInstant})
  /\ tabs = <<>>
  /\ active = 0
  /\ groups = <<>>
  /\ ledger = <<>>
  /\ accrued = {}
  /\ pauses = <<>>
  /\ nextRuleId = FirstRuleId
  /\ ruleIdMap = {}
  /\ installed = {}
  /\ alarms = <<>>
  /\ trackingState = NoSession
  /\ tickCounter = 0
  /\ intervals = {}
  /\ tasks = [t \in Tasks |-> IdleTask]
  /\ running = 0
  /\ redirects = <<>>
  /\ failed = {}
  /\ iconCache = NoIcon
  /\ actionFails = {}
  /\ ticks = 0
  /\ started = -1
  /\ lastRebuild = [addedCount |-> -1, removedCount |-> -1]

\* the function called returns value
Returns(value) ==
  /\ result = <<>>
  /\ result' = <<value>>
  /\ UNCHANGED <<storageVars, browserVars, trackerVars, tasks, running,
                 historyVars, call, iconVars>>

CallNormalizeSitePattern ==
  /\ call[1] = "normalizeSitePattern"
  /\ Returns(normalizeSitePattern(call[2][1]))

CallIsInsideTimeBlock ==
  /\ call[1] = "isInsideTimeBlock"
  /\ Returns(isInsideTimeBlock(call[2][1], now))

CallDoesUrlMatchSite ==
  /\ call[1] = "doesUrlMatchSite"
  /\ Returns(doesUrlMatchSite(call[2][1], call[2][2], call[2][3]))

CallGetNextTimeWindowBoundary ==
  /\ call[1] = "getNextTimeWindowBoundary"
  /\ Returns(getNextTimeWindowBoundary(call[2][1], now))

\* the browser matches the regex compiled from a pattern against a URL
CallSitePatternToRegexFilter ==
  /\ call[1] = "sitePatternToRegexFilter"
  /\ Returns(sitePatternToRegexFilter(call[2][1], call[2][2]))

NextCalls ==
  \/ CallNormalizeSitePattern
  \/ CallIsInsideTimeBlock
  \/ CallDoesUrlMatchSite
  \/ CallGetNextTimeWindowBoundary
  \/ CallSitePatternToRegexFilter

SpecCalls == InitCalls /\ [][NextCalls]_vars

----------------------------------------------------------------------------
(* SpecReload: the worker is loaded again and again on a tab that matches   *)
(* no group, with nothing else happening: rebuilds in succession with the   *)
(* groups, the pauses, the ledger and the clock unchanged.                  *)

InitReload == InitLoaded(Usages \cup {Budget1}, Url3)

NextReload ==
  \/ \E t \in Tasks : StopTracking(t) \/ DecideStep(t) \/ RebuildStep(t)
  \/ \E t \in Tasks : EvaluateCurrentTab(t) \/ EctQueried(t) \/ EctGroups(t)
  \/ \E t \in Tasks : EctEnd(t) \/ InitializeStep(t)
  \/ WorkerLoaded

SpecReload == InitReload /\ [][NextReload]_vars

----------------------------------------------------------------------------
(* SpecWindow: one handler at a time, a session on a block one second short *)
(* of its budget, and the clock passing the end of the block's window.      *)

\* the minute after the last minute of Block1 on the first day
AfterBlock1 ==
  todayDateStr(FirstInstant) * MinutesPerDay
    + timeStrToMinutes(Block1.endTime) + 1

InitWindow == InitSettled({Budget1 - 1}, Url3)

NextWindow ==
  \/ \E t \in Tasks : StopStep(t) \/ StartStep(t) \/ DecideStep(t) \/ EvaluateStep(t)
  \/ \E t \in Tasks : ExhaustionStep(t) \/ RebuildStep(t) \/ NoticeStep(t)
  \/ \E i \in intervals : Quiescent /\ Tick(1, MaxTicks, i)
  \/ Navigate(1, Url2)
  \/ Quiescent /\ ClockAdvance({AfterBlock1})

SpecWindow == InitWindow /\ [][NextWindow]_vars

----------------------------------------------------------------------------
(* SpecEdit: one handler at a time, with the time blocks of the second      *)
(* group edited from the dashboard: blocks added and updated, a pause, a    *)
(* session and ticks.                                                       *)

\* what the dashboard's form passes: every property, the times of the inputs
\* also when All Day is checked
FormConfigs ==
  {[days |-> {"thu", "fri"}, allDay |-> a, startTime |-> <<10, 0>>,
    endTime |-> <<10, 2>>, allowedMinutes |-> n] : a \in BOOLEAN, n \in {1, 2}}

\* updates of some properties only
PartialUpdates ==
  {[allowedMinutes |-> 0], [allowedMinutes |-> 2], [allDay |-> TRUE],
   [startTime |-> <<10, 0>>]}

InitEdit == InitSettled({0, Budget1 - 1}, Url3)

NextEdit ==
  \/ \E t \in Tasks : StopStep(t) \/ StartStep(t) \/ DecideStep(t) \/ EvaluateStep(t)
  \/ \E t \in Tasks : ExhaustionStep(t) \/ RebuildStep(t) \/ NoticeStep(t)
  \/ \E t \in Tasks : PauseAlarmCreated(t) \/ RebuildThenEvaluate(t)
  \/ \E c \in FormConfigs : AddTimeBlock(1, "g2", c)
  \/ \E b \in StoredBlockIds, u \in FormConfigs \cup PartialUpdates :
        UpdateTimeBlock(1, "g2", b, u)
  \/ PauseActivated(1, "g2", now + PauseMinutes)
  \/ \E i \in intervals : Quiescent /\ Tick(1, MaxTicks, i)
  \/ Navigate(1, Url2)

SpecEdit == InitEdit /\ [][NextEdit]_vars

----------------------------------------------------------------------------
(* SpecOverlap: one handler at a time, with two time blocks of the second   *)
(* group that overlap: one lasts from 10:00 to 10:02, the other is the      *)
(* minute 10:02; they are stored in either order.  Navigations, ticks, and  *)
(* the clock passing from 10:00 to 10:02.                                   *)

BlockLong == [Block1 EXCEPT !.endTime = <<10, 2>>, !.allowedMinutes = 2]

BlockLate ==
  [Block1 EXCEPT !.id = "b2", !.startTime = <<10, 2>>, !.endTime = <<10, 2>>,
                 !.allowedMinutes = 2]

\* initialize() has completed on a tab that matches no group
InitOverlap ==
  /\ now = FirstInstant
  /\ tabs = [id \in {1} |-> Url3]
  /\ active = 1
  /\ \E blocks \in {<<BlockLong, BlockLate>>, <<BlockLate, BlockLong>>} :
        groups = <<Group1, [Group2 EXCEPT !.allowedTimeBlocks = blocks]>>
  /\ ledger = <<>>
  /\ accrued = {}
  /\ pauses = <<>>
  /\ nextRuleId = FirstRuleId + 1
  /\ ruleIdMap = {<<"g1", "s1", FirstRuleId>>}
  /\ installed = Range(CompileGroup(Group1, AlwaysBlocked, FirstRuleId))
  /\ alarms = [k \in {"persist", "midnight"} |->
        IF k = "persist" THEN [when |-> FirstInstant, period |-> 1]
        ELSE [when |-> NextMidnight(FirstInstant), period |-> MinutesPerDay]]
  /\ trackingState = NoSession
  /\ tickCounter = 0
  /\ intervals = {}
  /\ tasks = [t \in Tasks |-> IdleTask]
  /\ running = 0
  /\ redirects = <<>>
  /\ failed = {}
  /\ iconCache = SettledIcon
  /\ actionFails = {}
  /\ ticks = 0
  /\ started = -1
  /\ lastRebuild = [addedCount |-> 1, removedCount |-> 0]
  /\ call = NoCall
  /\ result = <<>>

NextOverlap ==
  \/ \E t \in Tasks : StopStep(t) \/ StartStep(t) \/ DecideStep(t) \/ EvaluateStep(t)
  \/ \E i \in intervals : Quiescent /\ Tick(1, MaxTicks, i)
  \/ \E u \in {Url2, Url3} : Navigate(1, u)
  \/ Quiescent /\ ClockAdvance({AfterBlock1})

SpecOverlap == InitOverlap /\ [][NextOverlap]_vars

----------------------------------------------------------------------------
(* SpecClose: one handler at a time, a session one second short of its      *)
(* budget, the clock passing the end of the block's window, and the tab     *)
(* closed at any moment, also while a handler is suspended.                 *)

InitClose == InitSettled({Budget1 - 1}, Url3)

NextClose ==
  \/ \E t \in Tasks : StopStep(t) \/ StartStep(t) \/ DecideStep(t) \/ EvaluateStep(t)
  \/ \E t \in Tasks : ExhaustionStep(t) \/ RebuildStep(t) \/ NoticeStep(t)
  \/ \E i \in intervals : Quiescent /\ Tick(1, MaxTicks, i)
  \/ Navigate(1, Url2)
  \/ TabEvent(1)
  \/ TabClosed
  \/ Quiescent /\ ClockAdvance({AfterBlock1})

SpecClose == InitClose /\ [][NextClose]_vars

----------------------------------------------------------------------------
(* SpecIcon: one handler at a time on a tab that is navigated to a page of  *)
(* the second group or to a URL that does not parse, with ticks, the popup  *)
(* asking for the status of a URL, the clock leaving the block's window,    *)
(* and chrome.action calls that fail for a while.                           *)

\* the chrome.action calls that fail together
FailingCalls == {{}, {"setIcon"}, {"setBadgeText"}, {"setBadgeBackgroundColor"}}

InitIcon == InitSettled({Budget1 - 2}, Url3)

NextIcon ==
  \/ \E t \in Tasks : StopStep(t) \/ StartStep(t) \/ DecideStep(t) \/ EvaluateStep(t)
  \/ \E t \in Tasks : ExhaustionStep(t) \/ RebuildStep(t) \/ NoticeStep(t)
  \/ \E t \in Tasks : StatusStep(t)
  \/ \E i \in intervals : Quiescent /\ Tick(1, MaxTicks, i)
  \/ \E u \in {Url2, MalformedUrl} : Navigate(1, u)
  \/ \E u \in {Url2, MalformedUrl, NoUrl} : GetTabStatus(1, u)
  \/ \E fails \in FailingCalls : Quiescent /\ ActionCallsFail(fails)
  \/ Quiescent /\ ClockAdvance({AfterBlock1})

SpecIcon == InitIcon /\ [][NextIcon]_vars

----------------------------------------------------------------------------
(* SpecCycle: one handler at a time, a tab that is navigated to a page of   *)
(* the second group and may end on the block notice, tab events, reloads of *)
(* the service worker, and the clock moving in and out of the window of the *)
(* group's time block.                                                      *)

InitCycle == InitSettled({0}, Url3)

NextCycle ==
  \/ \E t \in Tasks : StopStep(t) \/ StartStep(t) \/ DecideStep(t) \/ EvaluateStep(t)
  \/ \E t \in Tasks : NoticeStep(t) \/ RebuildStep(t) \/ InitializeStep(t)
  \/ WorkerLoaded
  \/ Navigate(1, Url2)
  \/ TabEvent(1)
  \/ Quiescent /\ ClockAdvance(Instants)

SpecCycle == InitCycle /\ [][NextCycle]_vars

----------------------------------------------------------------------------
(* SpecAlarms: one handler at a time, on a tab that matches no group:       *)
(* pauses asked for and ended from the popup, pause-expiry alarms, reloads  *)
(* of the service worker, and the clock, minute by minute.                  *)

\* the minutes the clock passes through
PauseInstants == {FirstInstant + k : k \in 1..(PauseMinutes + 1)}

InitAlarms == InitSettled({0}, Url3)

NextAlarms ==
  \/ \E t \in Tasks : StopTracking(t) \/ DecideStep(t) \/ RebuildStep(t)
  \/ \E t \in Tasks : EvaluateCurrentTab(t) \/ EctQueried(t) \/ EctGroups(t)
  \/ \E t \in Tasks : EctEnd(t) \/ InitializeStep(t) \/ PauseStep(t)
  \/ \E g \in {"g1", "g2"} : PauseActivated(1, g, now + PauseMinutes)
  \/ \E g \in {"g1", "g2"} : PauseEnded(1, g)
  \/ \E g \in {"g1", "g2"} : PauseExpiryAlarm(1, g)
  \/ WorkerLoaded
  \/ ClockAdvance(PauseInstants)

SpecAlarms == InitAlarms /\ [][NextAlarms]_vars

----------------------------------------------------------------------------
(* Properties *)

\* C1: at most one one-second timer is live at any time, and it is the timer
\* of the current session: none is live when there is no session, and none
\* ticks that the session does not own.
OneSessionOneInterval ==
  /\ Cardinality(intervals) <= 1
  /\ Tracking => intervals = {trackingState.intervalId}
  /\ ~Tracking => intervals = {}

\* C2: the session's usedSeconds and every ledger entry are at most the
\* block's budget plus one second.
UsageWithinOneTick ==
  /\ Tracking => trackingState.usedSeconds <= trackingState.allowedSeconds + 1
  /\ \A k \in DOMAIN ledger : ledger[k] <= Budget1 + 1

\* C3: usage is written only to the ledger key of the date it accrued on: a
\* ledger entry is 0 until a tick has accrued usage for its group, date and
\* block.
UsageUnderItsDate ==
  \A k \in DOMAIN ledger : ledger[k] > 0 => k \in accrued

\* the rules installed for the group at position g of a groups list
RulesOf(grp, g) == {r \in installed : r.groupId = grp[g].id}

\* C4: when a rebuildAllRules that no other rebuild has overlapped has
\* replaced the rules, the installed set is exactly the set it compiled: one
\* rule per site of every group it decided to block, no rule of a group it
\* decided is paused or allowed, and no rule of an earlier rebuild.
RebuildInstallsCompiledSet ==
  \A t \in Tasks :
    LET me == tasks[t]
    IN (me.pc \in {"rb_u", "rb_m", "rb_s"} /\ me.solo) =>
         /\ installed = Range(me.addRules)
         /\ Cardinality(installed) = Len(me.addRules)
         /\ \A r \in installed : \E g \in 1..Len(me.grp) : r \in RulesOf(me.grp, g)
         /\ \A g \in 1..Len(me.grp) :
              IF me.decisions[g].block
                THEN /\ {r.siteId : r \in RulesOf(me.grp, g)} =
                          {me.grp[g].sites[k].id : k \in 1..Len(me.grp[g].sites)}
                     /\ Cardinality(RulesOf(me.grp, g)) = Len(me.grp[g].sites)
                     /\ Cardinality(RuleIds(RulesOf(me.grp, g))) = Len(me.grp[g].sites)
                ELSE RulesOf(me.grp, g) = {}

\* a rebuild nothing overlapped has just replaced the rule of an earlier
\* rebuild, with the first group paused and the second blocked
RebuildInstalledWitness ==
  \E t \in Tasks :
    /\ tasks[t].pc = "rb_s" /\ tasks[t].solo
    /\ tasks[t].removeRuleIds # {}
    /\ tasks[t].decisions[1].reason = "paused"
    /\ tasks[t].decisions[2].block

\* no alarm that starts a rebuild is due
NoRebuildAlarmDue == \A a \in DOMAIN alarms \ {"persist"} : alarms[a].when > now

\* C5: when no handler is in progress, no session is tracked and no alarm
\* is due, so that nothing more will happen until the next event, the
\* installed rules agree with the decision for every group: a group has
\* rules exactly when it is blocked.
RulesFollowSchedule ==
  (Quiescent /\ ~Tracking /\ NoRebuildAlarmDue) =>
     \A g \in 1..Len(groups) :
        RulesOf(groups, g) # {} <=> shouldGroupBlockNow(groups[g]).block

\* C6: in an uninterrupted session that started with usage u, usedSeconds
\* is u plus the ticks delivered and stays below the budget while the
\* session lasts; once it has ended, Budget1 - u ticks were delivered, the
\* ledger entry holds the budget, and tick has issued exactly one redirect,
\* of the tracked tab, with reason budget-exhausted and the block's minutes.
BudgetExhaustion ==
  /\ [](Quiescent /\ Tracking =>
          /\ trackingState.usedSeconds = started + ticks
          /\ trackingState.usedSeconds < Budget1)
  /\ [](Quiescent /\ ~Tracking /\ ticks > 0 =>
          /\ ticks = Budget1 - started
          /\ getTrackingEntry("g2", todayDateStr(now), "b1") = Budget1
          /\ redirects =
               <<[tabId |-> 1,
                  url |-> NoticeUrl("g2", "budget-exhausted",
                                    <<Block1.allowedMinutes>>, Url2)]>>)
  /\ [][ticks' # ticks /\ Remaining(trackingState') <= 0 =>
         \E t \in Tasks : tasks'[t].kind = "tick"]_vars

\* the session that started ten seconds short of the budget has ended
BudgetExhaustionWitness ==
  /\ Quiescent /\ ~Tracking
  /\ ticks = PersistEvery
  /\ started = Budget1 - PersistEvery
  /\ Len(redirects) = 1

\* C7: while one session lasts, a step leaves remaining unchanged or is a
\* tick that lowers it by exactly 1, and every tick lowers it by exactly 1.
RemainingCountsDown ==
  [][(Tracking /\ Tracking'
        /\ trackingState'.intervalId = trackingState.intervalId) =>
       /\ \/ Remaining(trackingState') = Remaining(trackingState)
          \/ /\ Remaining(trackingState') = Remaining(trackingState) - 1
             /\ ticks' = ticks + 1
       /\ ticks' = ticks + 1 =>
             Remaining(trackingState') = Remaining(trackingState) - 1]_vars

\* a session has been ticked twice, and evaluateCurrentTab has found it
\* already tracking the tab's group and block
RemainingCountsDownWitness ==
  /\ Tracking
  /\ Remaining(trackingState) = Budget1 - 2
  /\ ticks = 2
  /\ \E t \in Tasks : tasks[t].pc = "ect_q" /\ tasks[t].tab.url = Url2

\* C8 as stated: a group without time blocks is decided always-blocked in
\* every reachable state.
EmptyGroupAlwaysBlocked ==
  \A g \in 1..Len(groups) :
    Len(groups[g].allowedTimeBlocks) = 0 =>
      shouldGroupBlockNow(groups[g]) = AlwaysBlocked

\* C8 amended: a group without time blocks that has no unexpired pause row
\* is decided always-blocked, whatever the day and the time.
EmptyGroupBlockedUnlessPaused ==
  \A g \in 1..Len(groups) :
    (Len(groups[g].allowedTimeBlocks) = 0 /\ ~(getPause(groups[g].id) > now)) =>
      shouldGroupBlockNow(groups[g]) = AlwaysBlocked

\* on another day, the group without time blocks still has the row of a
\* pause that has expired
EmptyGroupWitness ==
  /\ todayDateStr(now) > todayDateStr(FirstInstant)
  /\ "g1" \in DOMAIN pauses
  /\ pauses["g1"] <= now

\* the decision for a group when its pause row is left out of account
DecisionWithoutPause(group) ==
  LET d == DecideSchedule(group, -1, now)
  IN IF d.reason # "budget" THEN d
     ELSE DecideBudget(d.activeBlock,
            getTrackingEntry(group.id, todayDateStr(now), d.activeBlock.id))

\* C9: a group with a pause row whose pausedUntil is after now is decided
\* paused until then, whatever its time blocks and usage; a pause row whose
\* pausedUntil is not after now leaves the decision what it is without it.
PauseOverrides ==
  \A g \in 1..Len(groups) :
    LET row == getPause(groups[g].id)
        d == shouldGroupBlockNow(groups[g])
    IN /\ row > now =>
            /\ d.reason = "paused" /\ ~d.block /\ d.pausedUntil = row
            /\ DecisionWithoutPause(groups[g]).reason # "paused"
       /\ (groups[g].id \in DOMAIN pauses /\ row <= now) =>
            d = DecisionWithoutPause(groups[g])

\* the second group, outside its schedule, is paused, and the pause of the
\* first group ends at this very minute, its row not yet cleared
PauseOverridesWitness ==
  /\ getPause("g2") > now
  /\ DecisionWithoutPause(Group2).reason = "outside-schedule"
  /\ getPause("g1") = now

\* C10: once the pause of a group without time blocks is over and its
\* expiry alarm has been delivered, the group's rules are installed again:
\* when no handler is in progress, the group has no unexpired pause row and
\* no expiry alarm is pending for it, the installed rules include its rules.
PauseExpiryRestoresRules ==
  \A g \in 1..Len(groups) :
    (/\ Quiescent
     /\ Len(groups[g].allowedTimeBlocks) = 0
     /\ groups[g].id \notin DOMAIN alarms
     /\ ~(getPause(groups[g].id) > now)) =>
       RulesOf(groups, g) # {}

\* C11: no rule ID is used twice.  The rules of one update have distinct
\* IDs, the installed rules have distinct IDs, and the IDs a rebuild has
\* given to rules it has not installed yet are the IDs of no installed rule
\* and of no rule of another rebuild.
RuleIdsNeverReused ==
  /\ Cardinality(RuleIds(installed)) = Cardinality(installed)
  /\ \A t \in Tasks :
       LET ids == RuleIds(Range(tasks[t].addRules))
       IN /\ Cardinality(ids) = Len(tasks[t].addRules)
          /\ tasks[t].pc \notin {"rb_u", "rb_m", "rb_s"} =>
                ids \cap RuleIds(installed) = {}
          /\ \A u \in Tasks \ {t} :
                ids \cap RuleIds(Range(tasks[u].addRules)) = {}

\* evaluateCurrentTab, on a page with matching groups, is past its loop over
\* them without having taken the blocked branch
PastLoopUnblocked(me) ==
  /\ me.tab.url.kind = "web"
  /\ me.matching # <<>>
  /\ \/ me.pc \in {"ect_pick", "ect_start", "start_e", "ect_end"}
     \/ /\ me.pc \in {"stop", "stop_p"}
        /\ me.stack # <<>>
        /\ Head(me.stack) \in {"ect_start", "ect_end"}

\* C12: if a group that matches the page is decided blocked, evaluateCurrentTab
\* takes the blocked branch (tracking stopped, tab redirected): it is never
\* past its loop without having taken it while a matching group is decided
\* blocked, whatever the other groups decide and whatever their order.
BlockedGroupWins ==
  \A t \in Tasks :
    PastLoopUnblocked(tasks[t]) =>
      \A i \in 1..Len(tasks[t].matching) :
        ~shouldGroupBlockNow(tasks[t].grp[tasks[t].matching[i]]).block

\* C13: when every group that matches the page is decided allowed, the
\* group evaluateCurrentTab has chosen after its loop is one with the least
\* remainingSeconds, the earliest of them in the order of the groups, and
\* the session startTracking creates is for that group and its active block.
GoverningGroupHasLeastRemaining ==
  /\ [](\A t \in Tasks :
          LET me == tasks[t]
          IN (/\ me.pc = "ect_pick"
              /\ me.matching # <<>>
              /\ \A i \in 1..Len(me.matching) :
                    shouldGroupBlockNow(me.grp[me.matching[i]]).reason = "allowed") =>
               /\ me.best \in Range(me.matching)
               /\ me.bestDecision = shouldGroupBlockNow(me.grp[me.best])
               /\ \A i \in 1..Len(me.matching) :
                    LET g == me.matching[i]
                        d == shouldGroupBlockNow(me.grp[g])
                    IN /\ me.bestDecision.remainingSeconds <= d.remainingSeconds
                       /\ d.remainingSeconds = me.bestDecision.remainingSeconds =>
                             me.best <= g)
  /\ [][\A t \in Tasks :
          (tasks[t].pc = "start_e" /\ tasks'[t].pc # "start_e") =>
             /\ trackingState'.groupId = tasks[t].grp[tasks[t].best].id
             /\ trackingState'.blockId = tasks[t].bestDecision.activeBlock.id
             /\ trackingState'.allowedSeconds =
                  tasks[t].bestDecision.activeBlock.allowedMinutes * SecondsPerMinute]_vars

\* on a page of the second and the third group, stored third group first,
\* a session tracks the second group, which had the least remaining
GoverningGroupWitness ==
  /\ Tracking
  /\ groups[1].id = "g3"
  /\ tabs[1] = Url2
  /\ trackingState.groupId = "g2"
  /\ started = Budget1 \div 2
  /\ getTrackingEntry("g3", todayDateStr(now), "b3") = 0

\* C14: while a session is tracked, its usedSeconds exceeds the ledger value
\* stored for its group, today's date and its block by at most ten.
BoundedStaleness ==
  Tracking =>
    trackingState.usedSeconds
      - getTrackingEntry(trackingState.groupId, todayDateStr(now),
                         trackingState.blockId) <= PersistEvery

\* isInsideTimeBlock has returned for a block, with the clock at `now`
Returned(fn) == call[1] = fn /\ result # <<>>

\* the clock is at the end minute of the block, on one of its days
AtEndMinute(block, t) ==
  /\ getCurrentDayStr(t) \in block.days
  /\ getCurrentTimeMinutes(t) = timeStrToMinutes(block.endTime)

\* C15 as stated: for every time block and every day in block.days, the
\* block is active when the minute of the day is its end minute, and it is
\* not active at the minute that follows.
ActiveThroughEndMinute ==
  Returned("isInsideTimeBlock") =>
    /\ AtEndMinute(call[2][1], now) => result = <<TRUE>>
    /\ AtEndMinute(call[2][1], now - 1) => result = <<FALSE>>

\* C15 amended: a block whose start is not after its end is active at its
\* end minute on each of its days, and not active at the minute that
\* follows when that minute is of the same day; at 00:00 after an end of
\* 23:59 it is active exactly when it starts at 00:00 and the new day is
\* one of its days.  A block whose start is after its end is never active.
ActiveThroughEndMinuteOfDay ==
  Returned("isInsideTimeBlock") =>
    LET block == call[2][1]
        start == timeStrToMinutes(block.startTime)
        end == timeStrToMinutes(block.endTime)
    IN /\ (AtEndMinute(block, now) /\ start <= end) => result = <<TRUE>>
       /\ (AtEndMinute(block, now - 1) /\ end < MinutesPerDay - 1) =>
             result = <<FALSE>>
       /\ (AtEndMinute(block, now - 1) /\ end = MinutesPerDay - 1) =>
             result = <<start = 0 /\ getCurrentDayStr(now) \in block.days>>
       /\ start > end => result = <<FALSE>>

\* the block 10:00 to 10:01 was asked about at 10:01 on one of its days
ActiveThroughEndMinuteWitness ==
  /\ Returned("isInsideTimeBlock")
  /\ call[2][1].startTime = <<10, 0>>
  /\ call[2][1].endTime = <<10, 1>>
  /\ AtEndMinute(call[2][1], now)
  /\ result = <<TRUE>>

\* C17: normalizeSitePattern applied to what it returned returns the same.
NormalizeIdempotent ==
  Returned("normalizeSitePattern") =>
    normalizeSitePattern(result[1]) = result[1]

\* the hostname, without regard to case, is the domain or ends with a dot
\* and the domain; and the pattern has no path part, or the pathname,
\* without regard to case, starts with it.  The domain is what comes before
\* the first "/" of the pattern and the path part what comes from it on.
MatchesAsSpecified(hostname, pathname, pattern) ==
  \E k \in 0..Len(pattern) :
    LET domain == ToLower(SubSeq(pattern, 1, k))
        path == ToLower(SubSeq(pattern, k + 1, Len(pattern)))
        host == ToLower(hostname)
    IN /\ \A i \in 1..k : pattern[i] # "/"
       /\ k < Len(pattern) => pattern[k + 1] = "/"
       /\ \/ host = domain
          \/ \E n \in 1..Len(host) :
                host[n] = "." /\ SubSeq(host, n + 1, Len(host)) = domain
       /\ \/ path = <<>>
          \/ /\ Len(path) <= Len(pathname)
             /\ \A i \in 1..Len(path) : ToLower(pathname)[i] = path[i]

\* C18: doesUrlMatchSite returns true exactly when the hostname and the
\* pathname match the pattern as specified.
MatchesExactlyAsSpecified ==
  Returned("doesUrlMatchSite") =>
    result = <<MatchesAsSpecified(call[2][1], call[2][2], call[2][3].pattern)>>

\* a pattern with a path has matched a page below it on a subdomain, in
\* another case
MatchesWitness ==
  /\ Returned("doesUrlMatchSite")
  /\ call[2][1] = <<"c", ".">> \o Str1
  /\ call[2][2] = <<"/", "r", "/", "d">>
  /\ call[2][3].pattern = Str1 \o <<"/", "R">>
  /\ result = <<TRUE>>

\* C16: when rebuildAllRules is about to return and an earlier call has
\* returned, with the groups, the pauses, the ledger and the clock the same
\* for both, its addedCount is the addedCount of the earlier call and its
\* removedCount is that too.
RebuildIdempotent ==
  \A t \in Tasks :
    (tasks[t].pc = "rb_s" /\ lastRebuild.addedCount # -1) =>
       /\ Len(tasks[t].addRules) = lastRebuild.addedCount
       /\ Cardinality(tasks[t].removeRuleIds) = lastRebuild.addedCount

\* a second rebuild is about to return, having compiled and removed the
\* rules of two blocked groups
RebuildIdempotentWitness ==
  \E t \in Tasks :
    /\ tasks[t].pc = "rb_s"
    /\ lastRebuild.addedCount = 2
    /\ Len(tasks[t].addRules) = 2
    /\ Cardinality(tasks[t].removeRuleIds) = 2

\* C19: a tick charges usage only to a block that is active at the time of
\* the tick: the session ticked is for a group whose active block, on the
\* day and at the minute of the tick, is the session's block.
TicksChargeActiveBlock ==
  [][ticks' = ticks + 1 =>
       \E g \in 1..Len(groups) :
         /\ groups[g].id = trackingState.groupId
         /\ getActiveBlockForGroup(groups[g], now).id = trackingState.blockId]_vars

\* C20: when tick is past the stopTracking and the rebuildAllRules of its
\* exhaustion branch and the exhausted group is not paused, the installed
\* rules include, for every site of the group, a rule of the group with
\* reason budget-exhausted.
ExhaustionInstallsRules ==
  \A t \in Tasks :
    (/\ tasks[t].kind = "tick"
     /\ tasks[t].pc \in {"tick_get", "tick_g", "tick_gg"}
     /\ ~(getPause(tasks[t].groupId) > now)) =>
       \A g \in 1..Len(groups) :
         groups[g].id = tasks[t].groupId =>
           \A k \in 1..Len(groups[g].sites) :
             \E r \in RulesOf(groups, g) :
               /\ r.siteId = groups[g].sites[k].id
               /\ r.reason = "budget-exhausted"

\* C21: every transition from Tracking to Idle leaves the session's final
\* usage in the ledger: on the step that clears the session, the ledger
\* value for the session's group, today's date and the session's block is
\* the usedSeconds the session held last.
FinalUsagePersisted ==
  [][(Tracking /\ ~Tracking') =>
       /\ <<trackingState.groupId, todayDateStr(now), trackingState.blockId>>
             \in DOMAIN ledger'
       /\ ledger'[<<trackingState.groupId, todayDateStr(now),
                    trackingState.blockId>>] = trackingState.usedSeconds]_vars

\* C23: a session that startTracking creates starts with the usedSeconds of
\* the ledger entry for its group, today's date and its block (0 when the
\* entry is absent), and no ledger entry is ever removed or lowered.
SessionStartsFromLedger ==
  [][/\ \A t \in Tasks :
          (tasks[t].pc = "start_e" /\ tasks'[t].pc # "start_e") =>
             trackingState'.usedSeconds =
               getTrackingEntry(trackingState'.groupId, todayDateStr(now),
                                trackingState'.blockId)
     /\ \A k \in DOMAIN ledger :
          k \in DOMAIN ledger' /\ ledger'[k] >= ledger[k]]_vars

\* evaluateCurrentTab is at a step of its own in the handler of slot t: the
\* tab query, the groups read, the decisions or the choice after the loop
Evaluating(t) ==
  /\ tasks[t].pc \in {"ect", "ect_q", "ect_groups", "ect_loop", "ect_pick",
                      "sgb", "sgb_p", "sgb_t"}
  /\ tasks[t].kind = "tab-event"

\* the handler of slot t has found the group and block it chose already
\* tracked
SamePair(t) ==
  /\ tasks[t].pc = "ect_pick"
  /\ tasks[t].best # 0
  /\ Tracking
  /\ trackingState.groupId = tasks[t].grp[tasks[t].best].id
  /\ trackingState.blockId = tasks[t].bestDecision.activeBlock.id

\* C22: when evaluateCurrentTab finds the pair it chose already tracked,
\* only the session's tab reference changes and the handler ends; no step of
\* evaluateCurrentTab up to there changes usedSeconds, allowedSeconds, the
\* tick counter, the timers or the ledger.
SamePairRefreshesTabOnly ==
  [][\A t \in Tasks :
       (Evaluating(t) /\ tasks'[t] # tasks[t]) =>
          /\ UNCHANGED <<tickCounter, intervals, ledger>>
          /\ IF SamePair(t)
               THEN /\ trackingState' =
                         [trackingState EXCEPT !.tabId = tasks[t].tab.id]
                    /\ tasks'[t] = IdleTask
               ELSE UNCHANGED trackingState]_vars

\* evaluateCurrentTab is about to refresh the tab reference of a session
\* that has been ticked
SamePairWitness ==
  \E t \in Tasks :
    /\ SamePair(t)
    /\ ticks > 0 /\ tickCounter = ticks
    /\ trackingState.usedSeconds = started + ticks

\* the positions, among the groups that match the active tab's page, of
\* those that are paused with no blocked group before them
PausedFirst ==
  LET matching == findMatchingGroups(tabs[active], groups)
  IN {i \in 1..Len(matching) :
        /\ shouldGroupBlockNow(groups[matching[i]]).reason = "paused"
        /\ \A j \in 1..(i - 1) : ~shouldGroupBlockNow(groups[matching[j]]).block}

\* C27: while a group that matches the active tab's page is paused and no
\* matching group stored before it is decided blocked, no session is tracked
\* once the handlers have completed, even if another matching group is
\* decided allowed, and no tick accrues usage.
PausedOutcomeIsIdle ==
  /\ []((Quiescent /\ active \in DOMAIN tabs /\ tabs[active].kind = "web"
           /\ PausedFirst # {}) => ~Tracking)
  /\ [][(active \in DOMAIN tabs /\ tabs[active].kind = "web"
           /\ PausedFirst # {}) => ticks' = ticks]_vars

\* on a page of the second and the third group, the third is paused, the
\* second, stored before it, is decided allowed, and nothing is tracked
PausedOutcomeWitness ==
  /\ Quiescent /\ ~Tracking
  /\ tabs[1] = Url2
  /\ groups[2].id = "g2" /\ groups[3].id = "g3"
  /\ shouldGroupBlockNow(groups[2]).reason = "allowed"
  /\ shouldGroupBlockNow(groups[3]).reason = "paused"
  /\ lastRebuild.removedCount > 0

\* C24: once the handlers have completed, a session that is still tracked
\* for a group and a block stored has the budget the block has now:
\* allowedSeconds is the block's allowedMinutes * 60.
SessionFollowsEditedBudget ==
  (Quiescent /\ Tracking) =>
    \A g \in 1..Len(groups) :
      \A i \in 1..Len(groups[g].allowedTimeBlocks) :
        (/\ groups[g].id = trackingState.groupId
         /\ groups[g].allowedTimeBlocks[i].id = trackingState.blockId) =>
           trackingState.allowedSeconds =
             groups[g].allowedTimeBlocks[i].allowedMinutes * SecondsPerMinute

\* the decision of C25 for a group whose active block is block and whose
\* usage today on that block is used
BudgetDecisionAsSpecified(d, block, used) ==
  IF used >= block.allowedMinutes * SecondsPerMinute
    THEN /\ d.block /\ d.reason = "budget-exhausted"
         /\ d.allowedMinutes = <<block.allowedMinutes>>
    ELSE /\ ~d.block /\ d.reason = "allowed"
         /\ d.activeBlock = block
         /\ d.remainingSeconds = block.allowedMinutes * SecondsPerMinute - used
         /\ d.remainingSeconds > 0

\* C25 as stated: for every group with an active block the decision is
\* blocked, budget-exhausted, with the block's allowedMinutes, exactly when
\* the ledger's usedSeconds is at least allowedMinutes * 60, and otherwise
\* allowed with remainingSeconds = allowedMinutes * 60 - usedSeconds > 0.
BudgetDecision ==
  \A g \in 1..Len(groups) :
    LET block == getActiveBlockForGroup(groups[g], now)
    IN block # NoBlock =>
         BudgetDecisionAsSpecified(shouldGroupBlockNow(groups[g]), block,
           getTrackingEntry(groups[g].id, todayDateStr(now), block.id))

\* C25 amended: the same for every group with an active block that has no
\* unexpired pause.
BudgetDecisionUnlessPaused ==
  \A g \in 1..Len(groups) :
    LET block == getActiveBlockForGroup(groups[g], now)
    IN (block # NoBlock /\ ~(getPause(groups[g].id) > now)) =>
         BudgetDecisionAsSpecified(shouldGroupBlockNow(groups[g]), block,
           getTrackingEntry(groups[g].id, todayDateStr(now), block.id))

\* the active block of the second group has been given a budget of 0 and,
\* unused, is decided budget-exhausted
BudgetDecisionWitness ==
  /\ getActiveBlockForGroup(groups[2], now).allowedMinutes = 0
  /\ getActiveBlockForGroup(groups[2], now).id = "b1"
  /\ getTrackingEntry("g2", todayDateStr(now), "b1") = 0
  /\ shouldGroupBlockNow(groups[2]).reason = "budget-exhausted"
  /\ ~(getPause("g2") > now)

ActiveBlocks(group, t) ==
  {i \in 1..Len(group.allowedTimeBlocks) :
     isInsideTimeBlock(group.allowedTimeBlocks[i], t)}

\* the block of a group that is active at t and first in insertion order
FirstActiveBlock(group, t) ==
  group.allowedTimeBlocks[
    CHOOSE i \in ActiveBlocks(group, t) : \A j \in ActiveBlocks(group, t) : i <= j]

\* C26: when several time blocks of a group are active at the same instant,
\* the active block is the first of them in insertion order, the decision
\* checks the budget against that block's ledger entry, the session
\* startTracking creates is for that block, and a tick charges its second
\* to that block.
FirstActiveBlockIsCharged ==
  /\ [](\A g \in 1..Len(groups) :
          Cardinality(ActiveBlocks(groups[g], now)) > 1 =>
            LET first == FirstActiveBlock(groups[g], now)
                d == shouldGroupBlockNow(groups[g])
            IN /\ getActiveBlockForGroup(groups[g], now) = first
               /\ d.reason = "allowed" =>
                    /\ d.activeBlock = first
                    /\ d.remainingSeconds =
                         first.allowedMinutes * SecondsPerMinute
                           - getTrackingEntry(groups[g].id, todayDateStr(now), first.id))
  /\ [][\A g \in 1..Len(groups) :
          (/\ Cardinality(ActiveBlocks(groups[g], now)) > 1
           /\ Tracking' /\ trackingState'.groupId = groups[g].id
           /\ \/ ticks' = ticks + 1
              \/ \E t \in Tasks : tasks[t].pc = "start_e" /\ tasks'[t].pc # "start_e") =>
             trackingState'.blockId = FirstActiveBlock(groups[g], now).id]_vars

\* the instants of the day of t at which a block of the groups, on one of
\* its days, opens (minute start) or closes (minute end + 1), and that are
\* after the minute of t
FutureBoundaries(grp, t) ==
  LET day == todayDateStr(t) * MinutesPerDay
      nowMinutes == getCurrentTimeMinutes(t)
      blocks == UNION {Range(grp[g].allowedTimeBlocks) : g \in 1..Len(grp)}
      today == {b \in blocks : getCurrentDayStr(t) \in b.days}
  IN {day + timeStrToMinutes(b.startTime) :
        b \in {x \in today : timeStrToMinutes(x.startTime) > nowMinutes}}
       \cup {day + timeStrToMinutes(b.endTime) + 1 :
               b \in {x \in today : timeStrToMinutes(x.endTime) + 1 > nowMinutes}}

\* what getNextTimeWindowBoundary returned is the least of the future
\* boundaries, or none (-1) when there is no such instant
ReturnedLeastBoundary ==
  LET bounds == FutureBoundaries(call[2][1], now)
  IN IF bounds = {} THEN result = <<-1>>
     ELSE /\ result[1] \in bounds
          /\ \A b \in bounds : result[1] <= b
          /\ result[1] > now

\* C28 as stated: getNextTimeWindowBoundary returns the least of the future
\* boundaries of today, none when there is none; the instant returned is
\* after now and within the current calendar day.
NextBoundaryWithinToday ==
  Returned("getNextTimeWindowBoundary") =>
    /\ ReturnedLeastBoundary
    /\ result # <<-1>> => todayDateStr(result[1]) = todayDateStr(now)

\* C28 amended: the instant returned is after now and not after the
\* midnight that ends the current calendar day; it is that midnight exactly
\* when the soonest boundary is the closing of a block that ends at 23:59.
NextBoundaryUpToMidnight ==
  Returned("getNextTimeWindowBoundary") =>
    /\ ReturnedLeastBoundary
    /\ result # <<-1>> =>
         /\ result[1] <= NextMidnight(now)
         /\ result[1] = NextMidnight(now) <=>
               /\ \E g \in 1..Len(call[2][1]) :
                     \E b \in Range(call[2][1][g].allowedTimeBlocks) :
                       /\ getCurrentDayStr(now) \in b.days
                       /\ b.endTime = <<23, 59>>
               /\ \A b \in FutureBoundaries(call[2][1], now) :
                     b >= NextMidnight(now)

\* at 10:00, with a block from 00:00 to 10:00 and a block from 10:00 to
\* 23:59 in one group, the boundary returned is 10:01
NextBoundaryWitness ==
  /\ Returned("getNextTimeWindowBoundary")
  /\ getCurrentTimeMinutes(now) = timeStrToMinutes(<<10, 0>>)
  /\ Len(call[2][1]) = 1
  /\ Len(call[2][1][1].allowedTimeBlocks) = 2
  /\ call[2][1][1].allowedTimeBlocks[1].startTime = <<10, 0>>
  /\ call[2][1][1].allowedTimeBlocks[1].endTime = <<23, 59>>
  /\ call[2][1][1].allowedTimeBlocks[2].endTime = <<10, 0>>
  /\ getCurrentDayStr(now) \in call[2][1][1].allowedTimeBlocks[2].days
  /\ result = <<now + 1>>

\* C30: a redirect that fails because the tab was closed is absorbed.  No
\* handler ends by an exception.  When the exhaustion branch of tick finds
\* the tab closed, tick ends there, without a redirect, with no session
\* tracked, the budget's usage in the ledger and rules of the group
\* installed; when the blocked branch of evaluateCurrentTab finds it closed,
\* the handler ends there with no session tracked.
RedirectFailureAbsorbed ==
  /\ [](failed = {})
  /\ [][\A t \in Tasks :
          LET me == tasks[t]
          IN /\ (/\ me.kind = "tick" /\ me.pc \in {"tick_get", "tick_gg"}
                 /\ me.tabId \notin DOMAIN tabs
                 /\ tasks'[t] # me) =>
                   /\ tasks'[t] = IdleTask
                   /\ UNCHANGED <<tabs, redirects, ledger, installed>>
                   /\ ~Tracking'
                   /\ \E k \in DOMAIN ledger :
                         /\ k[1] = me.groupId
                         /\ ledger[k] = me.allowedMinutes * SecondsPerMinute
                   /\ \E r \in installed : r.groupId = me.groupId
             /\ (/\ me.pc = "ect_redirect"
                 /\ me.tab.id \notin DOMAIN tabs
                 /\ tasks'[t] # me) =>
                   /\ tasks'[t] = IdleTask
                   /\ UNCHANGED <<tabs, redirects, ledger, installed>>
                   /\ ~Tracking']_vars

\* the budget ran out and tick has completed without a redirect, the tab
\* having been closed: nothing is tracked, the usage is in the ledger and
\* the rules of both groups are installed
RedirectFailureWitness ==
  /\ Quiescent /\ ~Tracking
  /\ ticks = 1
  /\ tabs = <<>>
  /\ redirects = <<>>
  /\ getTrackingEntry("g2", todayDateStr(now), "b1") = Budget1
  /\ lastRebuild.addedCount = 2

\* the handler in slot t is past the tab query of evaluateCurrentTab, which
\* found the tab on a URL that does not parse
EvaluatingMalformed(t) ==
  /\ tasks[t].kind = "tab-event"
  /\ tasks[t].pc \notin {"idle", "ect"}
  /\ tasks[t].tab.url.kind = "malformed"

\* a URL that does not parse matches no group, and get-tab-status answers
\* {matched: false} for it
MalformedMatchesNothing ==
  /\ findMatchingGroups(MalformedUrl, groups) = <<>>
  /\ (call[1] = "getTabStatus" /\ result # <<>> =>
        (call[2][1].kind = "malformed" => result[1] = NoStatus))

\* evaluateCurrentTab on such a tab ends without a session, on the default
\* icon when the chrome.action calls work, and without an error
MalformedEndsIdle(t) ==
  tasks'[t] = IdleTask =>
    /\ trackingState' = NoSession
    /\ (actionFails = {} =>
          /\ iconCache'.state = "default"
          /\ iconCache'.badgeText = <<>>
          /\ UNCHANGED failed)

\* C31 as stated: a URL that does not parse matches no group and
\* get-tab-status answers {matched: false} for it; evaluateCurrentTab on a tab
\* with such a URL ends Idle with the default icon, and apart from the
\* session (with its timer and tick counter) and the icon no state changes:
\* storage, tabs, rules and alarms stay as they are.
MalformedChangesSessionOnly ==
  /\ []MalformedMatchesNothing
  /\ [][\A t \in Tasks :
          (EvaluatingMalformed(t) /\ tasks'[t] # tasks[t]) =>
             /\ UNCHANGED <<storageVars, browserVars>>
             /\ MalformedEndsIdle(t)]_vars

\* C31, amended: as above, except that stopTracking writes the final usage
\* of the session it ends to the session's ledger row; groups, pauses, the
\* rule-ID rows, tabs, rules and alarms stay as they are.
MalformedChangesSessionAndItsLedgerRow ==
  /\ []MalformedMatchesNothing
  /\ [][\A t \in Tasks :
          (EvaluatingMalformed(t) /\ tasks'[t] # tasks[t]) =>
             /\ UNCHANGED <<groups, pauses, nextRuleId, ruleIdMap, browserVars>>
             /\ \/ UNCHANGED ledger
                \/ Tracking /\ ledger' = persistTracking(trackingState, now)
             /\ MalformedEndsIdle(t)]_vars

\* a session ticked once has been ended by the navigation of its tab to a
\* URL that does not parse: its usage is in the ledger, the icon is the
\* default one, and get-tab-status has answered {matched: false} for the URL
MalformedWitness ==
  /\ Quiescent
  /\ active \in DOMAIN tabs
  /\ tabs[active].kind = "malformed"
  /\ now = FirstInstant
  /\ ticks = 1
  /\ ~Tracking
  /\ ledger = LedgerWith(Budget1 - 1)
  /\ iconCache.state = "default"
  /\ call[1] = "getTabStatus"
  /\ call[2][1].kind = "malformed"
  /\ result = <<NoStatus>>

\* C32: a failure while updating the icon or the badge never prevents the
\* step that follows it: the Blocked branch of evaluateCurrentTab, once
\* stopTracking has returned, sends the tab it found (if still open) to the
\* block notice; startTracking leaves the session it built and its timer in
\* place, and a tick leaves the session counted up by one second, whatever
\* the chrome.action calls do.
IconFailureNeverPreventsEnforcement ==
  [][/\ \A t \in Tasks :
          (tasks[t].pc = "ect_redirect" /\ tasks'[t] # tasks[t]
             /\ tasks[t].tab.id \in DOMAIN tabs) =>
            tabs'[tasks[t].tab.id].kind = "notice"
     /\ \A t \in Tasks :
          (tasks[t].pc = "start_e" /\ tasks'[t] # tasks[t]) =>
            /\ trackingState' =
                 StartedSession(tasks[t].grp[tasks[t].best].id,
                                tasks[t].bestDecision.activeBlock,
                                tasks[t].used, tasks[t].tab.id, NewIntervalId)
            /\ intervals' = intervals \cup {NewIntervalId}
     /\ (ticks' # ticks =>
           /\ trackingState' = TickedSession(trackingState)
           /\ ledger' \in {ledger, persistTracking(trackingState', now)})]_vars

\* C33: for every site pattern and every http(s) URL, the regex compiled by
\* sitePatternToRegexFilter matches the URL exactly when doesUrlMatchSite is
\* true for the URL's hostname and pathname.
RegexAgreesWithLiveMatcher ==
  Returned("sitePatternToRegexFilter") =>
    result[1] = doesUrlMatchSite(call[2][2].host, call[2][2].path,
                                 [id |-> "s1", pattern |-> call[2][1]])

\* the same for the URLs that name no port
RegexAgreesWithoutPort ==
  (Returned("sitePatternToRegexFilter") /\ call[2][2].port = <<>>) =>
    result[1] = doesUrlMatchSite(call[2][2].host, call[2][2].path,
                                 [id |-> "s1", pattern |-> call[2][1]])

\* C34: an unexpired pause row (pausedUntil > now) is removed by the
\* pause-ended message only: the handler of a pause-expiry alarm never
\* removes it, however it interleaves with a pause-activated message for
\* the same group.
OnlyPauseEndedRemovesUnexpiredPause ==
  [][\A g \in DOMAIN pauses :
       (pauses[g] > now /\ g \notin DOMAIN pauses') =>
          \E t \in Tasks : /\ tasks[t].kind = "pause-ended"
                           /\ tasks[t].groupId = g
                           /\ tasks[t].pc = "pe_c"
                           /\ tasks'[t].pc # "pe_c"]_vars

\* the handler in slot t is about to send the tab, which shows the block
\* notice, back to its original URL: no group that matches it blocks
NavigatesBack(t) ==
  /\ tasks[t].pc = "ect_n_loop"
  /\ running = t
  /\ ~tasks[t].decision.block
  /\ tasks[t].i = Len(tasks[t].matching)
  /\ tasks[t].tab.id \in DOMAIN tabs

\* C35: whenever evaluateCurrentTab sends a tab that shows the block notice
\* back to its original URL, no installed rule matches that URL, so the tab
\* is not redirected to the block notice again.
NoRedirectCycle ==
  \A t \in Tasks :
     NavigatesBack(t) =>
        ~\E r \in installed :
            sitePatternToRegexFilter(r.pattern, OriginalUrl(tasks[t].tab.url))

\* C36: no handler reads a field of trackingState after another handler has
\* set it to null: stopTracking and tick never end with the TypeError of
\* such a read.
NoClearedSessionDereferenced ==
  \A f \in failed : f[2] \notin {"stopTracking", "tick"}

\* the handlers of pause-activated, pause-ended and pause-expiry alarms in
\* progress
PauseHandlers ==
  {t \in Tasks :
     tasks[t].kind \in {"pause-activated", "pause-ended", "pause-expiry"}}

\* C37: whenever no pause handler is in progress, every group with an
\* unexpired pause row has its pause-expiry alarm armed; alarms are keyed by
\* group, so a group has one alarm at most, and the alarm a handler arms
\* for a group replaces the one armed before: it is due when the handler's
\* pause ends.
UnexpiredPauseHasItsAlarm ==
  /\ [](PauseHandlers = {} =>
          \A g \in DOMAIN pauses : pauses[g] > now => g \in DOMAIN alarms)
  /\ [][\A t \in Tasks :
          (tasks[t].pc = "pa_s" /\ tasks'[t] # tasks[t]) =>
             /\ tasks[t].groupId \in DOMAIN alarms'
             /\ alarms'[tasks[t].groupId] =
                  [when |-> tasks[t].pausedUntil, period |-> 0]]_vars

\* no pause handler is in progress, the rules have been rebuilt with
\* nothing to block, and the group has an unexpired pause row and its alarm,
\* armed by a pause-activated message sent after the clock had moved on
UnexpiredPauseWitness ==
  /\ PauseHandlers = {}
  /\ "g1" \in DOMAIN pauses
  /\ pauses["g1"] > now
  /\ "g1" \in DOMAIN alarms
  /\ alarms["g1"].when > FirstInstant + PauseMinutes
  /\ lastRebuild.addedCount = 0

\* C38: the persisted rule-ID counter never decreases, and whenever no
\* rebuildAllRules is in progress it is greater than the ID of every
\* installed rule, however the rebuilds interleave.
RuleIdCounterAheadOfInstalled ==
  /\ [][nextRuleId' >= nextRuleId]_vars
  /\ [](Rebuilding = {} => \A r \in installed : r.id < nextRuleId)

\* C39: the groupId and the decision that get-tab-status returns for a URL
\* are those of the group on which the loop of evaluateCurrentTab ends for
\* the same URL in the same state: a blocked match first, otherwise the
\* allowed match with the least remainingSeconds.
StatusAgreesWithTrackingLoop ==
  [][\A t \in Tasks :
       (tasks[t].pc = "gts_r" /\ tasks'[t].pc # "gts_r") =>
          LET matching == findMatchingGroups(tasks[t].tabUrl, groups)
              chosen == MostRestrictive(groups, matching, 0, NoDecision)
          IN /\ chosen.g # 0
             /\ result'[1].groupId = groups[chosen.g].id
             /\ result'[1].decision = chosen.decision]_vars

====
